---- MODULE Spec2Model ----
(***************************************************************************)
(* Model of src/src/engine/engine_vis_visualize.c: the assembly of the     *)
(* abstract scene (primitives, lights, stereo cameras) from a model, its   *)
(* state, the options and the perturbation.                                *)
(*                                                                         *)
(* Representation of numbers.  Every quantity is an integer:               *)
(*   - lengths and coordinates are counted in hundredths (0.1f is 10);    *)
(*   - colour components, emission, specular, shininess, reflectance and   *)
(*     the transparency factor are counted in twentieths (0.5f is 10,      *)
(*     1.0f is 20, 0.9 is 18);                                             *)
(*   - entries of rotation matrices are plain integers.                    *)
(* All values of the model are small integers, exactly representable as    *)
(* mjtNum and as float, so the casts (float)x and mju_n2f lose nothing on  *)
(* them.  Inputs are chosen so that every halving is exact.                *)
(*                                                                         *)
(* Control flow.  mjv_addGeoms and addContactGeom never read the primitive *)
(* count except in START, so the order of the START sites a call reaches   *)
(* is fixed by its arguments and by the scene cameras it finds.  The       *)
(* section operators (skinSection, inertiaSection, ...) follow the loops   *)
(* of the code and list those sites in order; the actions START_ok,        *)
(* START_full, FINISH, SKIP and FATAL then execute one site at a time.     *)
(***************************************************************************)
EXTENDS Integers, Sequences, FiniteSets, TLC

\* ------------------------------------------------------------------ bounds

\* largest scene capacity (scn->maxgeom) tried
MaxGeom == 6

\* number of calls of mjv_updateScene and mjv_addGeoms made on one scene
MaxCalls == 2

\* ------------------------------------------------------- array helpers

\* a C array: the tuple s indexed from 0
Arr(s) == [i \in 0..(Len(s)-1) |-> s[i+1]]

RECURSIVE Cat(_, _, _)
\* concatenation of f[lo], ..., f[hi], the START sites of a loop in order
Cat(f, lo, hi) == IF lo > hi THEN <<>> ELSE f[lo] \o Cat(f, lo+1, hi)

\* an argument passed as NULL
NULL == <<>>

\* a matrix argument passed as NULL
NULLMAT == [tag |-> "null", v |-> <<>>]

\* mju_n2f and (float): exact on the integers of the model
n2f(x) == x

\* static const mjtNum IDENTITY[9]
IDENTITY == <<1,0,0, 0,1,0, 0,0,1>>

\* a mjtNum[9] stored into geom->mat
Mat(v) == [tag |-> "mat", v |-> v]

\* mju_quat2Mat(mju_quatZ2Vec(dif)): the minimal rotation taking z to dif,
\* kept as the vector that determines it (zero rotation for a zero vector)
Z2Vec(dif) == [tag |-> "z2vec", v |-> dif]

\* mju_quat2Mat(quat) of a given quaternion, kept as the quaternion
QuatMat(q) == [tag |-> "quat", v |-> q]

\* mju_dot3
Dot3(a, b) == a[1]*b[1] + a[2]*b[2] + a[3]*b[3]

\* mju_sqrt on the perfect squares the model produces (floor otherwise)
Sqrt(n) == CHOOSE r \in 0..n : r*r <= n /\ (r+1)*(r+1) > n

\* mju_norm3
Norm3(v) == Sqrt(Dot3(v, v))

\* mju_mulMatVec(res, mat, vec, 3, 3): row-major mat times vec
MulMatVec(mat, vec) ==
    << mat[1]*vec[1] + mat[2]*vec[2] + mat[3]*vec[3],
       mat[4]*vec[1] + mat[5]*vec[2] + mat[6]*vec[3],
       mat[7]*vec[1] + mat[8]*vec[2] + mat[9]*vec[3] >>

\* mju_transpose(res, mat, 3, 3)
Transpose(mat) ==
    << mat[1], mat[4], mat[7],  mat[2], mat[5], mat[8],  mat[3], mat[6], mat[9] >>

\* mju_addScl3(res, a, b, s) = a + s*b
AddScl3(a, b, s) == << a[1] + s*b[1], a[2] + s*b[2], a[3] + s*b[3] >>

\* the j-th axis (0-based) scaled to length len, as the loops over k build it
AxisVec(j, len) == << IF j = 0 THEN len ELSE 0, IF j = 1 THEN len ELSE 0,
                      IF j = 2 THEN len ELSE 0 >>

\* the colour of the j-th frame axis: 0.9 on component j, alpha 1
AxisRgba(j) == << IF j = 0 THEN 18 ELSE 0, IF j = 1 THEN 18 ELSE 0,
                  IF j = 2 THEN 18 ELSE 0, 20 >>

\* ------------------------------------------------------------ primitives

\* makeLabel for an element without a name: "<type> <id>"
makeLabel(type, id) == << type, id >>

\* the connector-compatible types of mjv_makeConnector
ConnectorTypes == {"capsule", "cylinder", "arrow", "arrow1", "arrow2", "line"}

\* the geom types (mjtGeom) the model uses
GeomTypes == ConnectorTypes \cup {"plane", "sphere", "box", "mesh", "none", "label", "skin"}

\* mjv_initGeom: given fields when not NULL, defaults otherwise; objtype,
\* objid, category and segid are not touched
mjv_initGeom(geom, type, size, pos, mat, rgba) ==
    [geom EXCEPT
        !.type = type,
        !.size = IF size # NULL
                 THEN CASE type = "sphere" -> << n2f(size[1]), n2f(size[1]), n2f(size[1]) >>
                        [] type = "capsule" -> << n2f(size[1]), n2f(size[1]), n2f(size[2]) >>
                        [] type = "cylinder" -> << n2f(size[1]), n2f(size[1]), n2f(size[2]) >>
                        [] OTHER -> << n2f(size[1]), n2f(size[2]), n2f(size[3]) >>
                 ELSE << 10, 10, 10 >>,
        !.pos = IF pos # NULL THEN << n2f(pos[1]), n2f(pos[2]), n2f(pos[3]) >>
                ELSE << 0, 0, 0 >>,
        !.mat = IF mat.tag # "null" THEN mat ELSE Mat(IDENTITY),
        !.rgba = IF rgba # NULL THEN rgba ELSE << 10, 10, 10, 20 >>,
        !.dataid = -1,
        !.texid = -1,
        !.texuniform = 0,
        !.texcoord = 0,
        !.texrepeat = << 1, 1 >>,
        !.emission = 0,
        !.specular = 10,
        !.shininess = 10,
        !.reflectance = 0,
        !.label = << >>,
        !.modelrbound = 0]

\* a slot of scn->geoms that no call has written since the scene was
\* allocated, or that holds a primitive of an earlier frame
StaleGeom ==
    [type |-> "box", dataid |-> 7, objtype |-> "geom", objid |-> 9,
     category |-> "static", texid |-> 3, texuniform |-> 1, texcoord |-> 1,
     segid |-> 99, texrepeat |-> << 3, 3 >>, size |-> << 9, 9, 9 >>,
     pos |-> << 9, 9, 9 >>, mat |-> Mat(IDENTITY), rgba |-> << 2, 2, 2, 2 >>,
     emission |-> 2, specular |-> 2, shininess |-> 2, reflectance |-> 2,
     label |-> << "stale", 0 >>, modelrbound |-> 9, site |-> "stale"]

\* mjv_makeConnector without its type check: a plausible slip
makeConnectorNoCheck(geom, type, width, a, b) ==
    LET dif == << b[1]-a[1], b[2]-a[2], b[3]-a[3] >>
        len == n2f(Norm3(dif))
        centered == type = "capsule" \/ type = "cylinder"
    IN  [ok |-> TRUE,
         geom |-> [geom EXCEPT
            !.type = type,
            !.size = << n2f(width), n2f(width), IF centered THEN len \div 2 ELSE len >>,
            !.pos = IF centered
                    THEN << (a[1]+b[1]) \div 2, (a[2]+b[2]) \div 2, (a[3]+b[3]) \div 2 >>
                    ELSE a,
            !.mat = Z2Vec(dif)]]

\* mjv_makeConnector that never halves the length: a plausible slip
makeConnectorFullLength(geom, type, width, a, b) ==
    LET dif == << b[1]-a[1], b[2]-a[2], b[3]-a[3] >>
        centered == type = "capsule" \/ type = "cylinder"
    IN  IF type \notin ConnectorTypes
        THEN [ok |-> FALSE, geom |-> geom]
        ELSE [ok |-> TRUE,
              geom |-> [geom EXCEPT
                 !.type = type,
                 !.size = << n2f(width), n2f(width), n2f(Norm3(dif)) >>,
                 !.pos = IF centered
                         THEN << (a[1]+b[1]) \div 2, (a[2]+b[2]) \div 2, (a[3]+b[3]) \div 2 >>
                         ELSE a,
                 !.mat = Z2Vec(dif)]]

\* mjv_makeConnector: type, size, pos and mat of a connector from a to b;
\* ok = FALSE when mju_error_i is raised (the call does not return)
mjv_makeConnector(geom, type, width, a, b) ==
    LET dif == << b[1]-a[1], b[2]-a[2], b[3]-a[3] >>
        len == n2f(Norm3(dif))
        centered == type = "capsule" \/ type = "cylinder"
    IN  IF type \notin ConnectorTypes
        THEN [ok |-> FALSE, geom |-> geom]
        ELSE [ok |-> TRUE,
              geom |-> [geom EXCEPT
                 !.type = type,
                 !.size = << n2f(width), n2f(width), IF centered THEN len \div 2 ELSE len >>,
                 !.pos = IF centered
                         THEN << (a[1]+b[1]) \div 2, (a[2]+b[2]) \div 2, (a[3]+b[3]) \div 2 >>
                         ELSE a,
                 !.mat = Z2Vec(dif)]]

\* a connector of the assembly, whose type is always connector-compatible
Connector(geom, type, width, a, b) == mjv_makeConnector(geom, type, width, a, b).geom

\* markselected: add glow to the emission and make opaque
markselected(vis, geom) ==
    [geom EXCEPT !.emission = @ + vis.global.glow, !.rgba = << @[1], @[2], @[3], 20 >>]

\* mjMAX
Max(a, b) == IF a >= b THEN a ELSE b

\* mjMIN
Min(a, b) == IF a <= b THEN a ELSE b

\* mixcolor: colour of a perturbation object from the two interaction sources
mixcolor(ref, flg1, flg2) ==
    LET r0 == IF flg1 THEN ref[1] ELSE 0
        r1 == IF flg1 THEN ref[2] ELSE 0
    IN  << IF flg2 THEN Max(r0, ref[2]) ELSE r0,
           IF flg2 THEN Max(r1, ref[1]) ELSE r1,
           ref[3], ref[4] >>

\* ----------------------------------------------------------------- state

VARIABLES
    m,          \* const mjModel*: the static model (never written)
    d,          \* mjData*: the state of the simulation read by the calls
    vopt,       \* const mjvOption*: flags, groups, label and frame modes
    pert,       \* const mjvPerturb*
    catmask,    \* the category mask passed by the caller
    cam,        \* mjvCamera*
    scn,        \* mjvScene*: maxgeom, ngeom, geoms, camera[2], lights
    warning,    \* d->warning[mjWARN_VGEOMFULL].number
    pc,         \* the function being executed, "idle", "done" or "fatal"
    caller,     \* "updateScene" while mjv_updateScene runs, "api" otherwise
    sites,      \* the START sites of the running assembly function, in order
    k,          \* number of START sites of `sites` already left behind
    thisgeom,   \* index of the slot the last START handed out, -1 before any
    args,       \* arguments of a direct call of mjv_makeConnector or setMaterial
    ret,        \* the geom that call produced
    hist        \* history of the calls: what the claims observe (not program state)

vars == << m, d, vopt, pert, catmask, cam, scn, warning, pc, caller, sites, k,
           thisgeom, args, ret, hist >>

\* what no call ever writes
inputs == << m, d, vopt, pert, catmask >>

\* ------------------------------------------------------ static helpers

\* mjNGROUP: number of visibility groups
mjNGROUP == 6

\* the clamped group index mjMAX(0, mjMIN(mjNGROUP-1, group))
ClampGroup(group) == Max(0, Min(mjNGROUP - 1, group))

\* bodycategory that forgets the mocap test: a plausible slip
bodycategoryNoMocap(bodyid) ==
    IF m.body_weldid[bodyid] = 0 THEN "static" ELSE "dynamic"

\* bodycategory: static if welded to the world and not a mocap body
bodycategory(bodyid) ==
    IF m.body_weldid[bodyid] = 0 /\ m.body_mocapid[bodyid] = -1
    THEN "static"
    ELSE "dynamic"

\* setMaterial that lets the material win over any explicit colour: a slip
setMaterialMatWins(geom, matid, rgba, flags) ==
    LET g1 == IF matid >= 0
              THEN [geom EXCEPT !.texrepeat = m.mat_texrepeat[matid],
                                !.rgba = m.mat_rgba[matid],
                                !.texuniform = m.mat_texuniform[matid],
                                !.emission = m.mat_emission[matid],
                                !.specular = m.mat_specular[matid],
                                !.shininess = m.mat_shininess[matid],
                                !.reflectance = m.mat_reflectance[matid]]
              ELSE [geom EXCEPT !.texrepeat = << 0, 0 >>]
        g2 == IF matid < 0 THEN [g1 EXCEPT !.rgba = rgba] ELSE g1
        g3 == IF "mjVIS_TEXTURE" \in flags /\ matid >= 0
              THEN [g2 EXCEPT !.texid = m.mat_texid[matid]]
              ELSE g2
    IN  IF "mjVIS_TRANSPARENT" \in flags /\ g3.category = "dynamic"
        THEN [g3 EXCEPT !.rgba = << @[1], @[2], @[3], (@[4] * m.vis.map.alpha) \div 20 >>]
        ELSE g3

\* setMaterial scaling the alpha of every geom, whatever its category: a
\* plausible slip
setMaterialAnyCategory(geom, matid, rgba, flags) ==
    LET g1 == IF matid >= 0
              THEN [geom EXCEPT !.texrepeat = m.mat_texrepeat[matid],
                                !.rgba = m.mat_rgba[matid],
                                !.texuniform = m.mat_texuniform[matid],
                                !.emission = m.mat_emission[matid],
                                !.specular = m.mat_specular[matid],
                                !.shininess = m.mat_shininess[matid],
                                !.reflectance = m.mat_reflectance[matid]]
              ELSE [geom EXCEPT !.texrepeat = << 0, 0 >>]
        g2 == IF rgba[1] # 10 \/ rgba[2] # 10 \/ rgba[3] # 10 \/ rgba[4] # 20 \/ matid < 0
              THEN [g1 EXCEPT !.rgba = rgba]
              ELSE g1
        g3 == IF "mjVIS_TEXTURE" \in flags /\ matid >= 0
              THEN [g2 EXCEPT !.texid = m.mat_texid[matid]]
              ELSE g2
    IN  IF "mjVIS_TRANSPARENT" \in flags
        THEN [g3 EXCEPT !.rgba = << @[1], @[2], @[3], (@[4] * m.vis.map.alpha) \div 20 >>]
        ELSE g3

\* setMaterial: material fields, colour, texture and transparency of a geom
setMaterial(geom, matid, rgba, flags) ==
    LET g1 == IF matid >= 0
              THEN [geom EXCEPT !.texrepeat = m.mat_texrepeat[matid],
                                !.rgba = m.mat_rgba[matid],
                                !.texuniform = m.mat_texuniform[matid],
                                !.emission = m.mat_emission[matid],
                                !.specular = m.mat_specular[matid],
                                !.shininess = m.mat_shininess[matid],
                                !.reflectance = m.mat_reflectance[matid]]
              ELSE [geom EXCEPT !.texrepeat = << 0, 0 >>]
        g2 == IF rgba[1] # 10 \/ rgba[2] # 10 \/ rgba[3] # 10 \/ rgba[4] # 20 \/ matid < 0
              THEN [g1 EXCEPT !.rgba = rgba]
              ELSE g1
        g3 == IF "mjVIS_TEXTURE" \in flags /\ matid >= 0
              THEN [g2 EXCEPT !.texid = m.mat_texid[matid]]
              ELSE g2
    IN  IF "mjVIS_TRANSPARENT" \in flags /\ g3.category = "dynamic"
        THEN [g3 EXCEPT !.rgba = << @[1], @[2], @[3], (@[4] * m.vis.map.alpha) \div 20 >>]
        ELSE g3

\* ------------------------------------------------- START and the sites

\* the option flag vopt->flags[f]
Flag(f) == f \in vopt.flags

\* START stamping the count after the emission as the segment id: a
\* plausible slip
STARTSegidAfter(geom, objtype, i, category, ngeom, site) ==
    [mjv_initGeom(geom, "none", NULL, NULL, NULLMAT, NULL) EXCEPT
        !.objtype = objtype, !.objid = i, !.category = category,
        !.segid = ngeom + 1, !.site = site]

\* START, buffer not full: initialise the slot and stamp the loop-local
\* objtype, category, the loop index and the segment id on it
START(geom, objtype, i, category, ngeom, site) ==
    [mjv_initGeom(geom, "none", NULL, NULL, NULLMAT, NULL) EXCEPT
        !.objtype = objtype, !.objid = i, !.category = category,
        !.segid = ngeom, !.site = site]

\* the test of START off by one: a plausible slip
BufferFullOffByOne(ngeom, maxgeom) == ngeom > maxgeom

\* the test of START refusing the last free slot: a plausible slip
BufferFullEarly(ngeom, maxgeom) == ngeom + 1 >= maxgeom

\* the test of START: no space in the buffer
BufferFull(ngeom, maxgeom) == ngeom >= maxgeom

\* one START site: which START of the code (site), the loop-local objtype
\* and category it stamps, the loop index i, a second index j where the
\* code has one, and how the text between START and FINISH ends
Site(site, objtype, i, category, j, end) ==
    [site |-> site, objtype |-> objtype, i |-> i, category |-> category,
     j |-> j, end |-> end]

\* the geom START yields when the slot held anything: used by the section
\* operators to decide an alpha-0 `continue`
Started(s) == START(StaleGeom, s.objtype, s.i, s.category, 0, s.site)

\* the three axis sites of a reference frame for element i
FrameSites(site, objtype, i) ==
    [j \in 1..3 |-> Site(site, objtype, i, "decor", j - 1, "finish")]

\* the body of a frame axis: a cylinder from pos along column j of mat
frameBody(g, j, pos, mat, width, length) ==
    LET vec == MulMatVec(mat, AxisVec(j, length))
        g1 == Connector(g, "cylinder", width, pos, AddScl3(pos, vec, 1))
    IN  [g1 EXCEPT !.rgba = AxisRgba(j)]

\* ---------------------------------------------------- skin (472-508)

skinBody(g, i) ==
    LET g1 == mjv_initGeom(g, "skin", NULL,
                           d.xpos[m.skin_bonebodyid[m.skin_boneadr[i]]], NULLMAT, NULL)
        g2 == setMaterial(g1, m.skin_matid[i], m.skin_rgba[i], vopt.flags)
        g3 == IF pert.skinselect = i THEN markselected(m.vis, g2) ELSE g2
        g4 == IF m.skin_texcoordadr[i] >= 0 THEN [g3 EXCEPT !.texcoord = 1] ELSE g3
    IN  IF g4.rgba[4] = 0 THEN g4
        ELSE IF vopt.label = "mjLABEL_SKIN"
             THEN [g4 EXCEPT !.label = makeLabel("skin", i)]
             ELSE g4

\* how an element with an alpha test ends: `continue` when alpha is 0
AlphaEnd(g) == IF g.rgba[4] = 0 THEN "skip" ELSE "finish"

skinSection(cm) ==
    IF Flag("mjVIS_SKIN") /\ "dynamic" \in cm
    THEN [i \in 1..m.nskin |->
            LET s == Site("skin", "skin", i - 1, "dynamic", 0, "finish")
            IN  [s EXCEPT !.end = AlphaEnd(skinBody(Started(s), i - 1))]]
    ELSE << >>

\* ------------------------------------------------- inertia (510-556)

\* the equivalent-inertia box; mjVIS_SCLINERTIA is never set by the model,
\* the rescaling of lines 527-538 is not taken
inertiaBody(g, i) ==
    LET I == m.body_inertia[i]
        sz == << Sqrt(((I[2] + I[3] - I[1]) * 6) \div m.body_mass[i]) \div 2,
                 Sqrt(((I[1] + I[3] - I[2]) * 6) \div m.body_mass[i]) \div 2,
                 Sqrt(((I[1] + I[2] - I[3]) * 6) \div m.body_mass[i]) \div 2 >>
        g1 == mjv_initGeom(g, "box", sz, d.xipos[i], Mat(d.ximat[i]), m.vis.rgba.inertia)
        g2 == IF pert.select = i THEN markselected(m.vis, g1) ELSE g1
    IN  IF vopt.label = "mjLABEL_BODY" \/ (vopt.label = "mjLABEL_SELECTION" /\ pert.select = i)
        THEN [g2 EXCEPT !.label = makeLabel("body", i)]
        ELSE g2

\* objtype becomes mjOBJ_BODY; category is not assigned in this section and
\* still holds the value `category` the skin section left
inertiaSection(cm, category) ==
    IF Flag("mjVIS_INERTIA")
    THEN Cat([i \in 1..(m.nbody - 1) |->
                IF m.body_mass[i] > 0 /\ bodycategory(i) \in cm
                THEN << Site("inertia", "body", i, category, 0, "finish") >>
                ELSE << >>], 1, m.nbody - 1)
    ELSE << >>

\* --------------------------------- perturbation objects (558-609)

pertConnectorRgba ==
    mixcolor(m.vis.rgba.constraint, "translate" \in pert.active,
             "translate" \in pert.active2)

pertConnectorBody(g, i) ==
    LET g1 == Connector(g, "capsule", m.stat.meansize * m.vis.scale.constraint,
                        d.xipos[i], pert.refpos)
    IN  [g1 EXCEPT !.rgba = pertConnectorRgba]

pertSphereBody(g, i) ==
    LET w == 2 * m.stat.meansize * m.vis.scale.constraint
    IN  mjv_initGeom(g, "sphere", << w, w, w >>, pert.refpos, QuatMat(pert.refquat),
                     pertConnectorRgba)

pertBoxBody(g, i) ==
    LET scl == m.stat.meansize
    IN  mjv_initGeom(g, "box", << scl, scl, scl >>, d.xipos[i], QuatMat(pert.refquat),
                     mixcolor(m.vis.rgba.inertia, "rotate" \in pert.active,
                              "rotate" \in pert.active2))

pertSection(cm) ==
    IF Flag("mjVIS_PERTOBJ") /\ "decor" \in cm /\ pert.select > 0
    THEN (IF "translate" \in (pert.active \cup pert.active2)
          THEN << Site("pert_connector", "unknown", pert.select, "decor", 0, "finish"),
                  Site("pert_sphere", "unknown", pert.select, "decor", 0, "finish") >>
          ELSE << >>)
         \o
         (IF "rotate" \in (pert.active \cup pert.active2)
          THEN << Site("pert_box", "unknown", pert.select, "decor", 0, "finish") >>
          ELSE << >>)
    ELSE << >>

\* --------------------------------- world and body frames (611-660)

bodyFrameBody(g, i, j) ==
    LET scl == m.stat.meansize
        len == IF i = 0 THEN m.vis.scale.framelength * scl * 2
               ELSE m.vis.scale.framelength * scl
        wid == IF i = 0 THEN m.vis.scale.framewidth * scl * 2
               ELSE m.vis.scale.framewidth * scl
    IN  frameBody(g, j, d.xpos[i], d.xmat[i], wid, len)

bodyFrameSection(cm) ==
    IF "decor" \in cm
    THEN LET lo == IF vopt.frame = "mjFRAME_WORLD" THEN 0 ELSE 1
             hi == (IF vopt.frame = "mjFRAME_BODY" THEN m.nbody ELSE 1) - 1
         IN  Cat([i \in lo..hi |->
                    IF i > 0 /\ bodycategory(i) \notin cm
                    THEN << >>
                    ELSE FrameSites(IF i = 0 THEN "worldframe" ELSE "bodyframe",
                                    "unknown", i)], lo, hi)
    ELSE << >>

\* ------------------------------------- selection point (662-684)

selectBody(g) ==
    LET selpos == AddScl3(MulMatVec(d.xmat[pert.select], pert.localpos),
                          d.xpos[pert.select], 1)
        r == m.stat.meansize * m.vis.scale.selectpoint
        g1 == [g EXCEPT !.type = "sphere", !.size = << r, r, r >>, !.pos = selpos,
                        !.mat = Mat(IDENTITY), !.rgba = m.vis.rgba.selectpoint]
    IN  IF vopt.label = "mjLABEL_SELPNT"
        THEN [g1 EXCEPT !.label = << "selpnt", selpos[1], selpos[2], selpos[3],
                                     pert.localpos[1], pert.localpos[2], pert.localpos[3] >>]
        ELSE g1

selectSection(cm) ==
    IF "decor" \in cm /\ pert.select > 0 /\ Flag("mjVIS_SELECT")
    THEN << Site("selectpoint", "unknown", 0, "decor", 0, "finish") >>
    ELSE << >>

\* ----------------------------------------- body labels (686-710)

bodyLabelBody(g, i) ==
    [g EXCEPT !.type = "label", !.pos = d.xipos[i], !.mat = Mat(d.ximat[i]),
              !.label = makeLabel("body", i)]

bodyLabelSection(cm) ==
    IF "decor" \in cm /\ vopt.label \in {"mjLABEL_SELECTION", "mjLABEL_BODY"}
       /\ ~Flag("mjVIS_INERTIA")
    THEN Cat([i \in 1..(m.nbody - 1) |->
                IF (vopt.label = "mjLABEL_BODY"
                    \/ (vopt.label = "mjLABEL_SELECTION" /\ pert.select = i))
                   /\ bodycategory(i) \in cm
                THEN << Site("bodylabel", "unknown", i, "decor", 0, "finish") >>
                ELSE << >>], 1, m.nbody - 1)
    ELSE << >>

\* ---------------------------------------------- joints (712-767)

\* the joint types mjv_addGeoms knows
JointTypes == {"mjJNT_FREE", "mjJNT_BALL", "mjJNT_SLIDE", "mjJNT_HINGE"}

jointBody(g, i) ==
    LET scl == m.stat.meansize
        len == m.vis.scale.jointlength * scl
        wid == m.vis.scale.jointwidth * scl
        b == m.jnt_bodyid[i]
        r == (3 * len) \div 10
        g1 == CASE m.jnt_type[i] = "mjJNT_FREE" ->
                     [g EXCEPT !.type = "box", !.size = << r, r, r >>,
                               !.pos = d.xanchor[i], !.mat = Mat(d.xmat[b])]
                [] m.jnt_type[i] = "mjJNT_BALL" ->
                     [g EXCEPT !.type = "sphere", !.size = << r, r, r >>,
                               !.pos = d.xanchor[i], !.mat = Mat(d.xmat[b])]
                [] m.jnt_type[i] \in {"mjJNT_SLIDE", "mjJNT_HINGE"} ->
                     Connector(g, IF m.jnt_type[i] = "mjJNT_SLIDE" THEN "arrow" ELSE "arrow1",
                               wid, d.xanchor[i], AddScl3(d.xanchor[i], d.xaxis[i], len))
                [] OTHER -> g
        g2 == [g1 EXCEPT !.rgba = m.vis.rgba.joint]
    IN  IF vopt.label = "mjLABEL_JOINT"
        THEN [g2 EXCEPT !.label = makeLabel("joint", i)]
        ELSE g2

\* an unknown joint type raises mju_error_i after START
jointSection(cm) ==
    IF Flag("mjVIS_JOINT") /\ "decor" \in cm
    THEN Cat([i \in 0..(m.njnt - 1) |->
                IF vopt.jointgroup[ClampGroup(m.jnt_group[i])]
                THEN << Site("joint", "joint", i, "decor", 0,
                             IF m.jnt_type[i] \in JointTypes THEN "finish" ELSE "fatal") >>
                ELSE << >>], 0, m.njnt - 1)
    ELSE << >>

\* ------------------------------------------- actuators (769-930)

\* the range with 0 as its middle whatever its side: a plausible slip
actuatorRangeAroundZero(i) ==
    LET limited == m.actuator_ctrllimited[i]
        actlim == ~limited /\ Flag("mjVIS_ACTIVATION") /\ m.actuator_actlimited[i]
        rmin == IF limited THEN m.actuator_ctrlrange[i][1]
                ELSE IF actlim THEN m.actuator_actrange[i][1] ELSE -1
        rmax == IF limited THEN m.actuator_ctrlrange[i][2]
                ELSE IF actlim THEN m.actuator_actrange[i][2] ELSE 1
    IN  << rmin, 0, rmax >>

\* the extended range rng[0..2] of actuator i (775-805); the model's ranges
\* are integers, so a range shorter than mjMINVAL is an empty one, and the
\* adjustment by mjMINVAL is kept as a width of 0
actuatorRange(i) ==
    LET limited == m.actuator_ctrllimited[i]
        actlim == ~limited /\ Flag("mjVIS_ACTIVATION") /\ m.actuator_actlimited[i]
        rmin == IF limited THEN m.actuator_ctrlrange[i][1]
                ELSE IF actlim THEN m.actuator_actrange[i][1] ELSE -1
        rmax == IF limited THEN m.actuator_ctrlrange[i][2]
                ELSE IF actlim THEN m.actuator_actrange[i][2] ELSE 1
    IN  IF rmin >= 0 THEN << -1, rmin, rmax >>
        ELSE IF rmax <= 0 THEN << rmin, rmax, 1 >>
        ELSE << rmin, 0, rmax >>

\* the interpolated colour of actuator i (807-832)
actuatorRgba(i) ==
    LET rng == actuatorRange(i)
        raw == IF Flag("mjVIS_ACTIVATION") /\ m.actuator_dyntype[i] # 0
               THEN d.act[i - (m.nu - m.na)]
               ELSE d.ctrl[i]
        act == Min(rng[3], Max(rng[1], raw))
        lo == Max(1, rng[2] - rng[1])
        hi == Max(1, rng[3] - rng[2])
        neg == m.vis.rgba.actuatornegative
        mid == m.vis.rgba.actuator
        pos == m.vis.rgba.actuatorpositive
    IN  IF act <= rng[2]
        THEN [c \in 1..4 |-> ((rng[2] - act) * neg[c] + (lo - (rng[2] - act)) * mid[c]) \div lo]
        ELSE [c \in 1..4 |-> ((act - rng[2]) * pos[c] + (hi - (act - rng[2])) * mid[c]) \div hi]

actuatorLabel(g, i) ==
    IF vopt.label = "mjLABEL_ACTUATOR"
    THEN [g EXCEPT !.label = makeLabel("actuator", i)]
    ELSE g

actuatorJointBody(g, i) ==
    LET scl == m.stat.meansize
        j == m.actuator_trnid[i][1]
        g1 == Connector(g, IF m.jnt_type[j] = "mjJNT_SLIDE" THEN "arrow" ELSE "arrow1",
                        m.vis.scale.actuatorwidth * scl, d.xanchor[j],
                        AddScl3(d.xanchor[j], d.xaxis[j], m.vis.scale.actuatorlength * scl))
    IN  actuatorLabel([g1 EXCEPT !.rgba = actuatorRgba(i)], i)

\* the site size scaled by 1.1 (model sizes are multiples of 0.1)
actuatorSiteBody(g, i) ==
    LET j == m.actuator_trnid[i][1]
        sz == [c \in 1..3 |-> (m.site_size[j][c] * 11) \div 10]
        g1 == mjv_initGeom(g, m.site_type[j], sz, d.site_xpos[j], Mat(d.site_xmat[j]), g.rgba)
    IN  actuatorLabel([g1 EXCEPT !.rgba = actuatorRgba(i)], i)

\* the width of a tendon segment: halved inside wrapping objects
tendonWidth(t, w) ==
    IF d.wrap_obj[w] >= 0 /\ d.wrap_obj[w + 1] >= 0
    THEN m.tendon_width[t] \div 2
    ELSE m.tendon_width[t]

actuatorTendonBody(g, i, w) ==
    LET j == m.actuator_trnid[i][1]
        g1 == Connector(g, "capsule", tendonWidth(j, w) * m.vis.map.actuatortendon,
                        d.wrap_xpos[w], d.wrap_xpos[w + 1])
        g2 == setMaterial(g1, m.tendon_matid[j], m.tendon_rgba[j], vopt.flags)
        g3 == [g2 EXCEPT !.rgba = actuatorRgba(i)]
    IN  IF w = d.ten_wrapadr[j] THEN actuatorLabel(g3, i) ELSE g3

\* the segments of tendon t that are drawn: neither end is a pulley (-2)
tendonSegments(t, site, objtype, i, category) ==
    LET lo == d.ten_wrapadr[t]
        hi == d.ten_wrapadr[t] + d.ten_wrapnum[t] - 2
    IN  Cat([w \in lo..hi |->
               IF d.wrap_obj[w] # -2 /\ d.wrap_obj[w + 1] # -2
               THEN << Site(site, objtype, i, category, w, "finish") >>
               ELSE << >>], lo, hi)

actuatorSection(cm) ==
    IF Flag("mjVIS_ACTUATOR") /\ "decor" \in cm
    THEN Cat([i \in 0..(m.nu - 1) |->
                IF vopt.actuatorgroup[ClampGroup(m.actuator_group[i])]
                THEN LET j == m.actuator_trnid[i][1]
                         t == m.actuator_trntype[i]
                     IN  (IF t \in {"mjTRN_JOINT", "mjTRN_JOINTINPARENT"}
                             /\ m.jnt_type[j] \in {"mjJNT_HINGE", "mjJNT_SLIDE"}
                          THEN << Site("actuator_joint", "actuator", i, "decor", 0, "finish") >>
                          ELSE << >>)
                         \o
                         (IF t = "mjTRN_SITE"
                          THEN << Site("actuator_site", "actuator", i, "decor", 0, "finish") >>
                          ELSE IF t = "mjTRN_TENDON" /\ d.ten_wrapnum[j] # 0
                          THEN tendonSegments(j, "actuator_tendon", "actuator", i, "decor")
                          ELSE << >>)
                ELSE << >>], 0, m.nu - 1)
    ELSE << >>

\* ------------------------------------------------ geoms (932-1084)

\* mjMAXPLANEGRID: maximum number of grid lines of a rendered plane
mjMAXPLANEGRID == 200

\* mju_round: the nearest integer to num/den (den > 0), halves upward
Round(num, den) == (2 * num + den) \div (2 * den)

\* the size increment sX of an infinite plane along axis c (1018-1028), in
\* hundredths: 2/texrepeat, or 2.1*zfar/(mjMAXPLANEGRID-2)
planeIncrement(i, c) ==
    LET matid == m.geom_matid[i]
        zfar == m.vis.map.zfar * m.stat.extent
    IN  IF matid >= 0 /\ m.mat_texrepeat[matid][c] > 0
        THEN 200 \div m.mat_texrepeat[matid][c]
        ELSE (21 * zfar) \div (10 * (mjMAXPLANEGRID - 2))

\* the position of plane geom i re-centred on the grid line below the
\* camera instead of the nearest one: a plausible slip
planePosFloor(i, camera) ==
    LET xpos == d.geom_xpos[i]
        vec == [c \in 1..3 |-> (camera[0].pos[c] + camera[1].pos[c]) \div 2 - xpos[c]]
        ax == Transpose(d.geom_xmat[i])
        row(c) == << ax[3*c - 2], ax[3*c - 1], ax[3*c] >>
        shift(c) == IF m.geom_size[i][c] <= 0
                    THEN 2 * planeIncrement(i, c)
                           * (Dot3(vec, row(c)) \div (2 * planeIncrement(i, c)))
                    ELSE 0
    IN  IF m.geom_size[i][1] <= 0 \/ m.geom_size[i][2] <= 0
        THEN AddScl3(AddScl3(xpos, row(1), shift(1)), row(2), shift(2))
        ELSE xpos

\* the position of plane geom i (1001-1041): re-centred on the midpoint of
\* the two scene cameras, as they are when mjv_addGeoms runs, along every
\* axis whose half-extent is not positive
planePos(i, camera) ==
    LET xpos == d.geom_xpos[i]
        vec == [c \in 1..3 |-> (camera[0].pos[c] + camera[1].pos[c]) \div 2 - xpos[c]]
        ax == Transpose(d.geom_xmat[i])
        row(c) == << ax[3*c - 2], ax[3*c - 1], ax[3*c] >>
        shift(c) == IF m.geom_size[i][c] <= 0
                    THEN 2 * planeIncrement(i, c)
                           * Round(Dot3(vec, row(c)), 2 * planeIncrement(i, c))
                    ELSE 0
    IN  IF m.geom_size[i][1] <= 0 \/ m.geom_size[i][2] <= 0
        THEN AddScl3(AddScl3(xpos, row(1), shift(1)), row(2), shift(2))
        ELSE xpos

\* number of planes among geoms 0..i, minus one: the running planeid
planeId(i) == Cardinality({g \in 0..i : m.geom_type[g] = "plane"}) - 1

\* the geom with the glow of the selected body applied before the alpha
\* test, as the skin section does: a plausible slip
geomBodyGlowFirst(g, i, camera) ==
    LET g1 == mjv_initGeom(g, m.geom_type[i], m.geom_size[i], d.geom_xpos[i],
                           Mat(d.geom_xmat[i]), NULL)
        g2 == [g1 EXCEPT !.dataid = m.geom_dataid[i], !.modelrbound = n2f(m.geom_rbound[i])]
        g3 == setMaterial(g2, m.geom_matid[i], m.geom_rgba[i], vopt.flags)
        g4 == IF m.geom_type[i] = "mesh" /\ m.geom_dataid[i] >= 0
                 /\ m.mesh_texcoordadr[m.geom_dataid[i]] >= 0
              THEN [g3 EXCEPT !.texcoord = 1]
              ELSE g3
        g5 == IF pert.select > 0 /\ pert.select = m.geom_bodyid[i]
              THEN markselected(m.vis, g4)
              ELSE g4
        g6 == IF vopt.label = "mjLABEL_GEOM"
              THEN [g5 EXCEPT !.label = makeLabel("geom", i)]
              ELSE g5
    IN  IF g5.rgba[4] = 0 THEN g5
        ELSE IF m.geom_type[i] = "mesh"
        THEN [g6 EXCEPT !.dataid =
                 2 * @ + (IF m.mesh_graphadr[m.geom_dataid[i]] >= 0 /\ Flag("mjVIS_CONVEXHULL")
                          THEN 1 ELSE 0)]
        ELSE IF m.geom_type[i] = "plane"
        THEN [g6 EXCEPT !.dataid = planeId(i), !.pos = planePos(i, camera)]
        ELSE g6

geomBody(g, i, camera) ==
    LET g1 == mjv_initGeom(g, m.geom_type[i], m.geom_size[i], d.geom_xpos[i],
                           Mat(d.geom_xmat[i]), NULL)
        g2 == [g1 EXCEPT !.dataid = m.geom_dataid[i], !.modelrbound = n2f(m.geom_rbound[i])]
        g3 == setMaterial(g2, m.geom_matid[i], m.geom_rgba[i], vopt.flags)
        g4 == IF m.geom_type[i] = "mesh" /\ m.geom_dataid[i] >= 0
                 /\ m.mesh_texcoordadr[m.geom_dataid[i]] >= 0
              THEN [g3 EXCEPT !.texcoord = 1]
              ELSE g3
        g5 == IF pert.select > 0 /\ pert.select = m.geom_bodyid[i]
              THEN markselected(m.vis, g4)
              ELSE g4
        g6 == IF vopt.label = "mjLABEL_GEOM"
              THEN [g5 EXCEPT !.label = makeLabel("geom", i)]
              ELSE g5
    IN  IF g4.rgba[4] = 0 THEN g4
        ELSE IF m.geom_type[i] = "mesh"
        THEN [g6 EXCEPT !.dataid =
                 2 * @ + (IF m.mesh_graphadr[m.geom_dataid[i]] >= 0 /\ Flag("mjVIS_CONVEXHULL")
                          THEN 1 ELSE 0)]
        ELSE IF m.geom_type[i] = "plane"
        THEN [g6 EXCEPT !.dataid = planeId(i), !.pos = planePos(i, camera)]
        ELSE g6

geomFrameBody(g, i, j) ==
    frameBody(g, j, d.geom_xpos[i], d.geom_xmat[i],
              m.vis.scale.framewidth * m.stat.meansize,
              m.vis.scale.framelength * m.stat.meansize)

\* category is bodycategory of the geom's body; the frame is decorative
geomSection(cm) ==
    Cat([i \in 0..(m.ngeom - 1) |->
           LET category == bodycategory(m.geom_bodyid[i])
               s == Site("geom", "geom", i, category, 0, "finish")
               end == AlphaEnd(geomBody(Started(s), i, scn.camera))
           IN  IF category \notin cm \/ ~vopt.geomgroup[ClampGroup(m.geom_group[i])]
               THEN << >>
               ELSE << [s EXCEPT !.end = end] >>
                    \o (IF end = "skip" \/ "decor" \notin cm \/ vopt.frame # "mjFRAME_GEOM"
                        THEN << >>
                        ELSE FrameSites("geomframe", "unknown", i))],
        0, m.ngeom - 1)

\* ------------------------------------------------ sites (1086-1162)

siteBody(g, i) ==
    LET g1 == mjv_initGeom(g, m.site_type[i], m.site_size[i], d.site_xpos[i],
                           Mat(d.site_xmat[i]), NULL)
        g2 == setMaterial(g1, m.site_matid[i], m.site_rgba[i], vopt.flags)
        g3 == IF pert.select > 0 /\ pert.select = m.site_bodyid[i]
              THEN markselected(m.vis, g2)
              ELSE g2
    IN  IF g2.rgba[4] = 0 THEN g2
        ELSE IF vopt.label = "mjLABEL_SITE"
        THEN [g3 EXCEPT !.label = makeLabel("site", i)]
        ELSE g3

siteFrameBody(g, i, j) ==
    frameBody(g, j, d.site_xpos[i], d.site_xmat[i],
              m.vis.scale.framewidth * m.stat.meansize,
              m.vis.scale.framelength * m.stat.meansize)

siteSection(cm) ==
    Cat([i \in 0..(m.nsite - 1) |->
           LET category == bodycategory(m.site_bodyid[i])
               s == Site("site", "site", i, category, 0, "finish")
               end == AlphaEnd(siteBody(Started(s), i))
           IN  IF category \notin cm \/ ~vopt.sitegroup[ClampGroup(m.site_group[i])]
               THEN << >>
               ELSE << [s EXCEPT !.end = end] >>
                    \o (IF end = "skip" \/ "decor" \notin cm \/ vopt.frame # "mjFRAME_SITE"
                        THEN << >>
                        ELSE FrameSites("siteframe", "unknown", i))],
        0, m.nsite - 1)

\* ---------------------------------------------- cameras (1164-1245)

cameraBodyBody(g, i) ==
    LET c == m.stat.meansize * m.vis.scale.camera
        g1 == [g EXCEPT !.type = "box",
                        !.size = << c, (8 * c) \div 10, (4 * c) \div 10 >>,
                        !.pos = d.cam_xpos[i], !.mat = Mat(d.cam_xmat[i]),
                        !.rgba = m.vis.rgba.camera]
    IN  IF vopt.label = "mjLABEL_CAMERA"
        THEN [g1 EXCEPT !.label = makeLabel("camera", i)]
        ELSE g1

cameraLensBody(g, i) ==
    LET c == m.stat.meansize * m.vis.scale.camera
        off == (6 * c) \div 10
        x == d.cam_xmat[i]
        col == m.vis.rgba.camera
    IN  [g EXCEPT !.pos = AddScl3(d.cam_xpos[i], << x[3], x[6], x[9] >>, -off),
                  !.type = "cylinder",
                  !.size = << (4 * c) \div 10, (4 * c) \div 10, (3 * c) \div 10 >>,
                  !.mat = Mat(d.cam_xmat[i]),
                  !.rgba = << col[1] \div 2, col[2] \div 2, col[3] \div 2, col[4] >>]

cameraFrameBody(g, i, j) ==
    frameBody(g, j, d.cam_xpos[i], d.cam_xmat[i],
              m.vis.scale.framewidth * m.stat.meansize,
              m.vis.scale.framelength * m.stat.meansize)

RECURSIVE cameraLoop(_, _, _)
\* the loop over cameras from camera i on; objtype is the loop-local
\* variable, assigned mjOBJ_CAMERA before the loop and mjOBJ_UNKNOWN before
\* a camera frame, and not assigned again at the top of an iteration
cameraLoop(cm, i, objtype) ==
    IF i >= m.ncam THEN << >>
    ELSE LET icon == << Site("camera_body", objtype, i, "decor", 0, "finish"),
                        Site("camera_lens", objtype, i, "decor", 0, "finish") >>
         IN  IF "decor" \notin cm \/ vopt.frame # "mjFRAME_CAMERA"
             THEN icon \o cameraLoop(cm, i + 1, objtype)
             ELSE icon \o FrameSites("cameraframe", "unknown", i)
                       \o cameraLoop(cm, i + 1, "unknown")

cameraSection(cm) ==
    IF Flag("mjVIS_CAMERA") /\ "decor" \in cm
    THEN cameraLoop(cm, 0, "camera")
    ELSE << >>

\* ----------------------------------------------- lights (1247-1314)

\* mju_quat2Mat(mju_quatZ2Vec(v)) as a matrix, for the directions of the
\* model: along z no rotation, against z half a turn about x
Z2VecMatrix(v) ==
    IF v[1] = 0 /\ v[2] = 0 /\ v[3] < 0
    THEN << 1, 0, 0,  0, -1, 0,  0, 0, -1 >>
    ELSE IDENTITY

\* the light icon, set back along the light direction by scl*light (the
\* further 0.0001 is below the resolution of the model)
lightBody(g, i) ==
    LET l == m.stat.meansize * m.vis.scale.light
        g1 == [g EXCEPT !.type = "cylinder",
                        !.size = << (8 * l) \div 10, (8 * l) \div 10, l >>,
                        !.pos = AddScl3(d.light_xpos[i], d.light_xdir[i], -l),
                        !.mat = Z2Vec(d.light_xdir[i]),
                        !.rgba = m.vis.rgba.light]
    IN  IF vopt.label = "mjLABEL_LIGHT"
        THEN [g1 EXCEPT !.label = makeLabel("light", i)]
        ELSE g1

lightFrameBody(g, i, j) ==
    frameBody(g, j, d.light_xpos[i], Z2VecMatrix(d.light_xdir[i]),
              m.vis.scale.framewidth * m.stat.meansize,
              m.vis.scale.framelength * m.stat.meansize)

RECURSIVE lightLoop(_, _, _)
\* the loop over lights from light i on, objtype threaded as for cameras
lightLoop(cm, i, objtype) ==
    IF i >= m.nlight THEN << >>
    ELSE LET icon == << Site("light", objtype, i, "decor", 0, "finish") >>
         IN  IF "decor" \notin cm \/ vopt.frame # "mjFRAME_LIGHT"
             THEN icon \o lightLoop(cm, i + 1, objtype)
             ELSE icon \o FrameSites("lightframe", "unknown", i)
                       \o lightLoop(cm, i + 1, "unknown")

lightSection(cm) ==
    IF Flag("mjVIS_LIGHT") /\ "decor" \in cm
    THEN lightLoop(cm, 0, "light")
    ELSE << >>

\* -------------------------------------- spatial tendons (1316-1351)

tendonBody(g, i, w) ==
    LET g1 == Connector(g, "capsule", tendonWidth(i, w), d.wrap_xpos[w], d.wrap_xpos[w + 1])
        g2 == setMaterial(g1, m.tendon_matid[i], m.tendon_rgba[i], vopt.flags)
    IN  IF vopt.label = "mjLABEL_TENDON" /\ w = d.ten_wrapadr[i]
        THEN [g2 EXCEPT !.label = makeLabel("tendon", i)]
        ELSE g2

tendonSection(cm) ==
    IF Flag("mjVIS_TENDON") /\ "dynamic" \in cm
    THEN Cat([i \in 0..(m.ntendon - 1) |->
                IF vopt.tendongroup[ClampGroup(m.tendon_group[i])]
                THEN tendonSegments(i, "tendon", "tendon", i, "dynamic")
                ELSE << >>], 0, m.ntendon - 1)
    ELSE << >>

\* ----------------------------------------- slider-crank (1353-1404)

\* the slider-crank flagged as broken when the discriminant is 0 as well: a
\* plausible slip
sliderCrankBrokenAtZero(i) ==
    LET j == m.actuator_trnid[i][1]
        s == m.actuator_trnid[i][2]
        rod == m.actuator_cranklength[i]
        x == d.site_xmat[s]
        axis == << x[3], x[6], x[9] >>
        vec == AddScl3(d.site_xpos[j], d.site_xpos[s], -1)
        len == Dot3(vec, axis)
        det == len * len + rod * rod - Dot3(vec, vec)
        broken == det <= 0
        len1 == len - Sqrt(IF broken THEN 0 ELSE det)
    IN  [end |-> AddScl3(d.site_xpos[s], axis, len1), broken |-> broken]

\* the slider-crank solution of actuator i: the slider endpoint and whether
\* the discriminant was negative (clamped to 0, mechanism broken)
sliderCrank(i) ==
    LET j == m.actuator_trnid[i][1]
        s == m.actuator_trnid[i][2]
        rod == m.actuator_cranklength[i]
        x == d.site_xmat[s]
        axis == << x[3], x[6], x[9] >>
        vec == AddScl3(d.site_xpos[j], d.site_xpos[s], -1)
        len == Dot3(vec, axis)
        det == len * len + rod * rod - Dot3(vec, vec)
        broken == det < 0
        len1 == len - Sqrt(IF broken THEN 0 ELSE det)
    IN  [end |-> AddScl3(d.site_xpos[s], axis, len1), broken |-> broken]

sliderBody(g, i) ==
    LET s == m.actuator_trnid[i][2]
        g1 == Connector(g, "cylinder", m.stat.meansize * m.vis.scale.slidercrank,
                        d.site_xpos[s], sliderCrank(i).end)
    IN  actuatorLabel([g1 EXCEPT !.rgba = m.vis.rgba.slidercrank], i)

crankBody(g, i) ==
    LET j == m.actuator_trnid[i][1]
        g1 == Connector(g, "capsule", (m.stat.meansize * m.vis.scale.slidercrank) \div 2,
                        sliderCrank(i).end, d.site_xpos[j])
    IN  [g1 EXCEPT !.rgba = IF sliderCrank(i).broken THEN m.vis.rgba.crankbroken
                             ELSE m.vis.rgba.slidercrank]

sliderCrankSection(cm) ==
    IF "dynamic" \in cm
    THEN Cat([i \in 0..(m.nu - 1) |->
                IF m.actuator_trntype[i] = "mjTRN_SLIDERCRANK"
                THEN << Site("slider", "actuator", i, "dynamic", 0, "finish"),
                        Site("crank", "actuator", i, "dynamic", 0, "finish") >>
                ELSE << >>], 0, m.nu - 1)
    ELSE << >>

\* ------------------------------------- centre of mass (1406-1421)

comBody(g, i) ==
    LET r == m.stat.meansize * m.vis.scale.com
    IN  [g EXCEPT !.type = "sphere", !.size = << r, r, r >>, !.pos = d.subtree_com[i],
                  !.mat = Mat(IDENTITY), !.rgba = m.vis.rgba.com]

comSection(cm) ==
    IF Flag("mjVIS_COM") /\ "decor" \in cm
    THEN Cat([i \in 1..(m.nbody - 1) |->
                IF m.body_rootid[i] = i
                THEN << Site("com", "unknown", i, "decor", 0, "finish") >>
                ELSE << >>], 1, m.nbody - 1)
    ELSE << >>

\* ----------------------------------------- auto connect (1423-1460)

\* joint j of body i is connected from the body com (for the last joint of
\* the body) or from the anchor of the joint visited before it
connectJointBody(g, i, j) ==
    LET cur == IF j = m.body_jntadr[i] + m.body_jntnum[i] - 1 THEN d.xipos[i]
               ELSE d.xanchor[j + 1]
        g1 == Connector(g, "capsule", m.stat.meansize * m.vis.scale.connect,
                        cur, d.xanchor[j])
    IN  [g1 EXCEPT !.rgba = m.vis.rgba.connect]

connectParentBody(g, i) ==
    LET cur == IF m.body_jntnum[i] # 0 THEN d.xanchor[m.body_jntadr[i]] ELSE d.xipos[i]
        g1 == Connector(g, "capsule", m.stat.meansize * m.vis.scale.connect,
                        cur, d.xipos[m.body_parentid[i]])
    IN  [g1 EXCEPT !.rgba = m.vis.rgba.connect]

\* the joints of body i in reverse order
connectJoints(i) ==
    [n \in 1..m.body_jntnum[i] |->
        Site("connect_joint", "unknown", i, "decor",
             m.body_jntadr[i] + m.body_jntnum[i] - n, "finish")]

connectSection(cm) ==
    IF Flag("mjVIS_AUTOCONNECT") /\ "decor" \in cm
    THEN Cat([i \in 1..(m.nbody - 1) |->
                IF m.body_parentid[i] = 0
                THEN << >>
                ELSE connectJoints(i)
                     \o << Site("connect_parent", "unknown", i, "decor", 0, "finish") >>],
             1, m.nbody - 1)
    ELSE << >>

\* ----------------------------------------- rangefinders (1462-1491)

rangefinderBody(g, i) ==
    LET dst == d.sensordata[m.sensor_adr[i]]
        sid == m.sensor_objid[i]
        x == d.site_xmat[sid]
        g1 == Connector(g, "line", 1, d.site_xpos[sid],
                        AddScl3(d.site_xpos[sid], << x[3], x[6], x[9] >>, dst))
    IN  [g1 EXCEPT !.rgba = m.vis.rgba.rangefinder]

rangefinderSection(cm) ==
    IF Flag("mjVIS_RANGEFINDER") /\ "decor" \in cm
    THEN Cat([i \in 0..(m.nsensor - 1) |->
                IF m.sensor_type[i] = "mjSENS_RANGEFINDER"
                   /\ d.sensordata[m.sensor_adr[i]] >= 0
                THEN << Site("rangefinder", "unknown", i, "decor", 0, "finish") >>
                ELSE << >>], 0, m.nsensor - 1)
    ELSE << >>

\* ------------------------------ external perturbations (1493-1520)

\* the force part of a wrench or contact force mapped to a length
forceVec(f) ==
    << (f[1] * m.vis.map.force) \div m.stat.meanmass,
       (f[2] * m.vis.map.force) \div m.stat.meanmass,
       (f[3] * m.vis.map.force) \div m.stat.meanmass >>

pertForceBody(g, i) ==
    LET g1 == Connector(g, "arrow", m.vis.scale.forcewidth * m.stat.meansize,
                        d.xipos[i], AddScl3(d.xipos[i], forceVec(d.xfrc_applied[i]), 1))
    IN  [g1 EXCEPT !.rgba = m.vis.rgba.force]

pertForceSection(cm) ==
    Cat([i \in 1..(m.nbody - 1) |->
           IF d.xfrc_applied[i] # << 0, 0, 0, 0, 0, 0 >> /\ "decor" \in cm
              /\ Flag("mjVIS_PERTFORCE") /\ Norm3(d.xfrc_applied[i]) > 0
           THEN << Site("pertforce", "unknown", i, "decor", 0, "finish") >>
           ELSE << >>], 1, m.nbody - 1)

\* --------------------- connect and distance constraints (1522-1589)

eqConnectBody(g, i) ==
    LET b1 == m.eq_obj1id[i]
        b2 == m.eq_obj2id[i]
        e == m.eq_data[i]
        vec == AddScl3(MulMatVec(d.xmat[b1], << e[1], e[2], e[3] >>), d.xpos[b1], 1)
        end == AddScl3(MulMatVec(d.xmat[b2], << e[4], e[5], e[6] >>), d.xpos[b2], 1)
        g1 == Connector(g, "capsule", m.stat.meansize * m.vis.scale.constraint, vec, end)
        g2 == [g1 EXCEPT !.rgba = m.vis.rgba.constraint]
    IN  IF vopt.label = "mjLABEL_CONSTRAINT"
        THEN [g2 EXCEPT !.label = makeLabel("equality", i)]
        ELSE g2

\* contact c is a distance pseudo-constraint; its constraint id i was
\* recovered as -efc_address-2
eqDistanceBody(g, i, c) ==
    LET con == d.contact[c]
        len == con.dist - m.eq_data[i][1]
        n == << con.frame[1], con.frame[2], con.frame[3] >>
        vec == << con.pos[1] + (n[1] * len) \div 2, con.pos[2] + (n[2] * len) \div 2,
                  con.pos[3] + (n[3] * len) \div 2 >>
        end == << con.pos[1] - (n[1] * len) \div 2, con.pos[2] - (n[2] * len) \div 2,
                  con.pos[3] - (n[3] * len) \div 2 >>
        g1 == Connector(g, "capsule", m.stat.meansize * m.vis.scale.constraint, vec, end)
        g2 == [g1 EXCEPT !.rgba = m.vis.rgba.constraint]
    IN  IF vopt.label = "mjLABEL_CONSTRAINT"
        THEN [g2 EXCEPT !.label = makeLabel("equality", i)]
        ELSE g2

RECURSIVE distanceLoopPastGaps(_)
\* the scan passing over the contacts that are not flagged instead of
\* stopping at the first: a plausible slip
distanceLoopPastGaps(j) ==
    IF j >= 0
    THEN (IF d.contact[j].exclude = 3
          THEN << Site("eq_distance", "equality", -d.contact[j].efc_address - 2, "decor", j,
                       "finish") >>
          ELSE << >>)
         \o distanceLoopPastGaps(j - 1)
    ELSE << >>

RECURSIVE distanceLoop(_)
\* the while loop from contact j backward, while exclude is 3
distanceLoop(j) ==
    IF j >= 0 /\ d.contact[j].exclude = 3
    THEN << Site("eq_distance", "equality", -d.contact[j].efc_address - 2, "decor", j,
                 "finish") >>
         \o distanceLoop(j - 1)
    ELSE << >>

constraintSection(cm) ==
    IF Flag("mjVIS_CONSTRAINT") /\ "decor" \in cm /\ m.neq # 0
    THEN Cat([i \in 0..(m.neq - 1) |->
                IF m.eq_active[i] /\ m.eq_type[i] = "mjEQ_CONNECT"
                THEN << Site("eq_connect", "equality", i, "decor", 0, "finish") >>
                ELSE << >>], 0, m.neq - 1)
         \o distanceLoop(d.ncon - 1)
    ELSE << >>

\* ------------------------------------------ addContactGeom (85-235)

\* contact rotation matrix with the normal along z (105-108)
contactMatZ(con) ==
    LET f == con.frame
    IN  Transpose(<< f[4], f[5], f[6], f[7], f[8], f[9], f[1], f[2], f[3] >>)

\* the contact force: the first min(3, dim) components of mj_contactForce
contactFrc(con) ==
    << con.force[1], IF con.dim >= 2 THEN con.force[2] ELSE 0,
       IF con.dim >= 3 THEN con.force[3] ELSE 0 >>

\* split rendering whatever the dimension of the contact: a plausible slip
contactSplitAnyDim(con) == Flag("mjVIS_CONTACTSPLIT")

\* split rendering of the force of contact con
contactSplit(con) == Flag("mjVIS_CONTACTSPLIT") /\ con.dim > 1

contactPointBody(g, i) ==
    LET con == d.contact[i]
        scl == m.stat.meansize
    IN  [g EXCEPT !.type = "cylinder",
                  !.size = << m.vis.scale.contactwidth * scl, m.vis.scale.contactwidth * scl,
                              m.vis.scale.contactheight * scl >>,
                  !.pos = con.pos, !.mat = Mat(contactMatZ(con)),
                  !.rgba = IF con.efc_address >= 0 THEN m.vis.rgba.contactpoint
                           ELSE m.vis.rgba.contactgap]

contactFrameBody(g, i, j) ==
    frameBody(g, j, d.contact[i].pos, contactMatZ(d.contact[i]),
              (m.vis.scale.framewidth * m.stat.meansize) \div 2,
              (m.vis.scale.framelength * m.stat.meansize) \div 2)

\* arrow j of contact i: 0 combined, 1 normal, 2 friction
contactForceBody(g, i, j) ==
    LET con == d.contact[i]
        mat == Transpose(con.frame)
        frc == contactFrc(con)
        split == contactSplit(con)
        raw == CASE j = 0 -> MulMatVec(mat, frc)
                 [] j = 1 -> << mat[1] * frc[1], mat[4] * frc[1], mat[7] * frc[1] >>
                 [] OTHER -> << mat[2] * frc[2] + mat[3] * frc[3],
                                mat[5] * frc[2] + mat[6] * frc[3],
                                mat[8] * frc[2] + mat[9] * frc[3] >>
        body1 == m.geom_bodyid[con.geom1]
        body2 == m.geom_bodyid[con.geom2]
        scaled == forceVec(raw)
        vec == IF body1 > body2 THEN << -scaled[1], -scaled[2], -scaled[3] >> ELSE scaled
        g1 == Connector(g, IF body1 > 0 /\ body2 > 0 /\ ~split THEN "arrow2" ELSE "arrow",
                        m.vis.scale.forcewidth * m.stat.meansize,
                        con.pos, AddScl3(con.pos, vec, 1))
        g2 == [g1 EXCEPT !.rgba = IF j = 2 THEN m.vis.rgba.contactfriction
                                  ELSE m.vis.rgba.contactforce]
    IN  IF vopt.label = "mjLABEL_CONTACTFORCE" /\ j = (IF split THEN 1 ELSE 0)
        THEN [g2 EXCEPT !.label = << "force", Norm3(frc) >>]
        ELSE g2

\* the START sites of addContactGeom, contact by contact
contactSection ==
    IF ~Flag("mjVIS_CONTACTPOINT") /\ ~Flag("mjVIS_CONTACTFORCE")
       /\ vopt.frame # "mjFRAME_CONTACT"
    THEN << >>
    ELSE Cat([i \in 0..(d.ncon - 1) |->
                LET con == d.contact[i]
                IN  (IF Flag("mjVIS_CONTACTPOINT")
                     THEN << Site("contactpoint", "unknown", i, "decor", 0, "finish") >>
                     ELSE << >>)
                    \o
                    (IF vopt.frame = "mjFRAME_CONTACT"
                     THEN FrameSites("contactframe", "unknown", i)
                     ELSE << >>)
                    \o
                    (IF con.efc_address >= 0 /\ Flag("mjVIS_CONTACTFORCE")
                        /\ Norm3(contactFrc(con)) > 0
                     THEN IF contactSplit(con)
                          THEN << Site("contactforce", "unknown", i, "decor", 1, "finish"),
                                  Site("contactforce", "unknown", i, "decor", 2, "finish") >>
                          ELSE << Site("contactforce", "unknown", i, "decor", 0, "finish") >>
                     ELSE << >>)],
             0, d.ncon - 1)

\* ------------------------------------------------ mjv_addGeoms (449-1595)

\* the mask left as passed whatever mjVIS_STATIC is: a plausible slip
effectiveMaskKeepStatic(mask) == mask

\* lines 467-470: clear mjCAT_STATIC if mjVIS_STATIC is not set
effectiveMask(mask) ==
    IF ~Flag("mjVIS_STATIC") THEN mask \ {"static"} ELSE mask

\* the START sites of mjv_addGeoms before the contact pass, in the order of
\* the code, for the mask as passed
addGeomsSites(mask) ==
    LET cm == effectiveMask(mask)
    IN  skinSection(cm) \o inertiaSection(cm, "dynamic") \o pertSection(cm)
        \o bodyFrameSection(cm) \o selectSection(cm) \o bodyLabelSection(cm)
        \o jointSection(cm) \o actuatorSection(cm) \o geomSection(cm)
        \o siteSection(cm) \o cameraSection(cm) \o lightSection(cm)
        \o tendonSection(cm) \o sliderCrankSection(cm) \o comSection(cm)
        \o connectSection(cm) \o rangefinderSection(cm) \o pertForceSection(cm)
        \o constraintSection(cm)

\* line 1592: the contact pass is entered when the mask has the decor bit
contactPass(mask) == "decor" \in effectiveMask(mask)

\* the text between START and FINISH at site s, applied to the started slot
\* g; camera is scn->camera as the call finds it
Body(s, g, camera) ==
    CASE s.site = "skin" -> skinBody(g, s.i)
      [] s.site = "inertia" -> inertiaBody(g, s.i)
      [] s.site = "pert_connector" -> pertConnectorBody(g, s.i)
      [] s.site = "pert_sphere" -> pertSphereBody(g, s.i)
      [] s.site = "pert_box" -> pertBoxBody(g, s.i)
      [] s.site \in {"worldframe", "bodyframe"} -> bodyFrameBody(g, s.i, s.j)
      [] s.site = "selectpoint" -> selectBody(g)
      [] s.site = "bodylabel" -> bodyLabelBody(g, s.i)
      [] s.site = "joint" -> jointBody(g, s.i)
      [] s.site = "actuator_joint" -> actuatorJointBody(g, s.i)
      [] s.site = "actuator_site" -> actuatorSiteBody(g, s.i)
      [] s.site = "actuator_tendon" -> actuatorTendonBody(g, s.i, s.j)
      [] s.site = "geom" -> geomBody(g, s.i, camera)
      [] s.site = "geomframe" -> geomFrameBody(g, s.i, s.j)
      [] s.site = "site" -> siteBody(g, s.i)
      [] s.site = "siteframe" -> siteFrameBody(g, s.i, s.j)
      [] s.site = "camera_body" -> cameraBodyBody(g, s.i)
      [] s.site = "camera_lens" -> cameraLensBody(g, s.i)
      [] s.site = "cameraframe" -> cameraFrameBody(g, s.i, s.j)
      [] s.site = "light" -> lightBody(g, s.i)
      [] s.site = "lightframe" -> lightFrameBody(g, s.i, s.j)
      [] s.site = "tendon" -> tendonBody(g, s.i, s.j)
      [] s.site = "slider" -> sliderBody(g, s.i)
      [] s.site = "crank" -> crankBody(g, s.i)
      [] s.site = "com" -> comBody(g, s.i)
      [] s.site = "connect_joint" -> connectJointBody(g, s.i, s.j)
      [] s.site = "connect_parent" -> connectParentBody(g, s.i)
      [] s.site = "rangefinder" -> rangefinderBody(g, s.i)
      [] s.site = "pertforce" -> pertForceBody(g, s.i)
      [] s.site = "eq_connect" -> eqConnectBody(g, s.i)
      [] s.site = "eq_distance" -> eqDistanceBody(g, s.i, s.j)
      [] s.site = "contactpoint" -> contactPointBody(g, s.i)
      [] s.site = "contactframe" -> contactFrameBody(g, s.i, s.j)
      [] s.site = "contactforce" -> contactForceBody(g, s.i, s.j)

\* ------------------------------------------------------ the inputs

\* the categories of mjtCatBit
Categories == {"static", "dynamic", "decor"}

\* the visual configuration m->vis and the statistics m->stat of the models
BaseVis ==
    [scale |-> [framelength |-> 40, framewidth |-> 4, jointlength |-> 10,
                jointwidth |-> 2, actuatorlength |-> 20, actuatorwidth |-> 2,
                camera |-> 10, light |-> 10, selectpoint |-> 2, constraint |-> 2,
                connect |-> 2, com |-> 2, slidercrank |-> 4, forcewidth |-> 2,
                contactwidth |-> 6, contactheight |-> 2],
     map |-> [alpha |-> 10, force |-> 2, zfar |-> 198, znear |-> 1, actuatortendon |-> 2],
     global |-> [glow |-> 6, ipd |-> 4, fovy |-> 90],
     headlight |-> [active |-> TRUE, ambient |-> << 2, 2, 2 >>,
                    diffuse |-> << 8, 8, 8 >>, specular |-> << 10, 10, 10 >>],
     rgba |-> [inertia |-> << 16, 4, 4, 12 >>, joint |-> << 4, 12, 16, 20 >>,
               actuator |-> << 4, 8, 12, 20 >>, actuatornegative |-> << 0, 4, 16, 20 >>,
               actuatorpositive |-> << 16, 8, 4, 20 >>, camera |-> << 8, 16, 8, 20 >>,
               light |-> << 12, 12, 18, 20 >>, selectpoint |-> << 18, 18, 2, 20 >>,
               constraint |-> << 18, 0, 0, 20 >>, connect |-> << 4, 4, 16, 20 >>,
               com |-> << 18, 18, 18, 20 >>, slidercrank |-> << 10, 6, 16, 20 >>,
               crankbroken |-> << 18, 0, 0, 20 >>, rangefinder |-> << 20, 20, 2, 20 >>,
               force |-> << 20, 10, 10, 20 >>, contactpoint |-> << 18, 12, 4, 20 >>,
               contactgap |-> << 10, 18, 12, 20 >>, contactforce |-> << 14, 18, 18, 20 >>,
               contactfriction |-> << 18, 16, 8, 20 >>]]

\* a mjModel with a world body and two bodies (body 2 is a child of body 1
\* and carries the joint), a plane on the world, a sphere on body 1, a mesh
\* on body 2, a site on each body, two cameras, two lights, one material,
\* one skin, one tendon, four actuators, two range finders and two equality
\* constraints.  weld1 and mocap1 are body_weldid and body_mocapid of body 1,
\* jtype the type of the joint, planesize the plane's half-extent along x,
\* galpha and gmatid the alpha and the material of the sphere
Model(weld1, mocap1, jtype, planesize, galpha, gmatid) ==
    [vis |-> BaseVis,
     stat |-> [meansize |-> 1, meanmass |-> 1, extent |-> 10],
     nbody |-> 3,
     body_weldid |-> Arr(<< 0, weld1, 2 >>),
     body_mocapid |-> Arr(<< -1, mocap1, -1 >>),
     body_mass |-> Arr(<< 0, 1, 1 >>),
     body_inertia |-> Arr(<< << 0, 0, 0 >>, << 600, 600, 600 >>, << 600, 600, 600 >> >>),
     body_rootid |-> Arr(<< 0, 1, 1 >>),
     body_parentid |-> Arr(<< 0, 0, 1 >>),
     body_jntnum |-> Arr(<< 0, 0, 1 >>),
     body_jntadr |-> Arr(<< -1, -1, 0 >>),
     njnt |-> 1,
     jnt_type |-> Arr(<< jtype >>),
     jnt_group |-> Arr(<< 0 >>),
     jnt_bodyid |-> Arr(<< 2 >>),
     nu |-> 4,
     na |-> 0,
     actuator_group |-> Arr(<< 0, 0, 0, 0 >>),
     actuator_trntype |-> Arr(<< "mjTRN_JOINT", "mjTRN_SITE", "mjTRN_TENDON",
                                 "mjTRN_SLIDERCRANK" >>),
     actuator_trnid |-> Arr(<< << 0, -1 >>, << 0, -1 >>, << 0, -1 >>, << 0, 1 >> >>),
     actuator_ctrllimited |-> Arr(<< TRUE, FALSE, FALSE, FALSE >>),
     actuator_actlimited |-> Arr(<< FALSE, FALSE, FALSE, FALSE >>),
     actuator_ctrlrange |-> Arr(<< << -2, 2 >>, << 0, 0 >>, << 0, 0 >>, << 0, 0 >> >>),
     actuator_actrange |-> Arr(<< << 0, 0 >>, << 0, 0 >>, << 0, 0 >>, << 0, 0 >> >>),
     actuator_dyntype |-> Arr(<< 0, 0, 0, 0 >>),
     actuator_cranklength |-> Arr(<< 0, 0, 0, 60 >>),
     ngeom |-> 3,
     geom_type |-> Arr(<< "plane", "sphere", "mesh" >>),
     geom_bodyid |-> Arr(<< 0, 1, 2 >>),
     geom_group |-> Arr(<< 0, 0, 0 >>),
     geom_matid |-> Arr(<< 0, gmatid, -1 >>),
     geom_dataid |-> Arr(<< -1, -1, 0 >>),
     geom_rbound |-> Arr(<< 0, 10, 20 >>),
     geom_size |-> Arr(<< << planesize, 500, 1 >>, << 10, 0, 0 >>, << 0, 0, 0 >> >>),
     geom_rgba |-> Arr(<< << 10, 10, 10, 20 >>, << 16, 10, 10, galpha >>,
                          << 10, 10, 10, 20 >> >>),
     mesh_texcoordadr |-> Arr(<< -1 >>),
     mesh_graphadr |-> Arr(<< 0 >>),
     nsite |-> 2,
     site_type |-> Arr(<< "sphere", "box" >>),
     site_bodyid |-> Arr(<< 1, 2 >>),
     site_group |-> Arr(<< 0, 0 >>),
     site_matid |-> Arr(<< -1, 0 >>),
     site_size |-> Arr(<< << 10, 10, 10 >>, << 10, 10, 10 >> >>),
     site_rgba |-> Arr(<< << 10, 10, 10, galpha >>, << 10, 10, 10, 20 >> >>),
     ncam |-> 2,
     cam_ipd |-> Arr(<< 8, 8 >>),
     cam_fovy |-> Arr(<< 90, 90 >>),
     nlight |-> 2,
     light_active |-> Arr(<< TRUE, TRUE >>),
     light_directional |-> Arr(<< FALSE, TRUE >>),
     light_castshadow |-> Arr(<< TRUE, FALSE >>),
     light_attenuation |-> Arr(<< << 20, 0, 0 >>, << 20, 2, 0 >> >>),
     light_exponent |-> Arr(<< 10, 10 >>),
     light_cutoff |-> Arr(<< 45, 45 >>),
     light_ambient |-> Arr(<< << 0, 0, 0 >>, << 2, 2, 2 >> >>),
     light_diffuse |-> Arr(<< << 14, 14, 14 >>, << 10, 10, 10 >> >>),
     light_specular |-> Arr(<< << 6, 6, 6 >>, << 4, 4, 4 >> >>),
     nmat |-> 1,
     mat_rgba |-> Arr(<< << 4, 4, 4, 20 >> >>),
     mat_texrepeat |-> Arr(<< << 1, 1 >> >>),
     mat_texuniform |-> Arr(<< 1 >>),
     mat_emission |-> Arr(<< 2 >>),
     mat_specular |-> Arr(<< 12 >>),
     mat_shininess |-> Arr(<< 14 >>),
     mat_reflectance |-> Arr(<< 4 >>),
     mat_texid |-> Arr(<< 0 >>),
     nskin |-> 1,
     skin_matid |-> Arr(<< -1 >>),
     skin_rgba |-> Arr(<< << 12, 12, 12, galpha >> >>),
     skin_texcoordadr |-> Arr(<< -1 >>),
     skin_boneadr |-> Arr(<< 0 >>),
     skin_bonebodyid |-> Arr(<< 1 >>),
     skin_bonenum |-> Arr(<< 1 >>),
     skin_bonebindpos |-> Arr(<< << 20, 0, 0 >> >>),
     skin_bonebindquat |-> Arr(<< << 1, 0, 0, 0 >> >>),
     skin_bonevertadr |-> Arr(<< 0 >>),
     skin_bonevertnum |-> Arr(<< 3 >>),
     skin_bonevertid |-> Arr(<< 0, 1, 2 >>),
     skin_bonevertweight |-> Arr(<< 1, 1, 1 >>),
     skin_vertadr |-> Arr(<< 0 >>),
     skin_vertnum |-> Arr(<< 3 >>),
     skin_faceadr |-> Arr(<< 0 >>),
     skin_facenum |-> Arr(<< 1 >>),
     skin_vert |-> Arr(<< << 0, 0, 0 >>, << 10, 0, 0 >>, << 0, 10, 0 >> >>),
     skin_face |-> Arr(<< << 0, 1, 2 >> >>),
     skin_inflate |-> Arr(<< 2 >>),
     ntendon |-> 1,
     tendon_group |-> Arr(<< 0 >>),
     tendon_width |-> Arr(<< 4 >>),
     tendon_matid |-> Arr(<< -1 >>),
     tendon_rgba |-> Arr(<< << 10, 10, 10, 20 >> >>),
     nsensor |-> 2,
     sensor_type |-> Arr(<< "mjSENS_RANGEFINDER", "mjSENS_RANGEFINDER" >>),
     sensor_adr |-> Arr(<< 0, 1 >>),
     sensor_objid |-> Arr(<< 0, 1 >>),
     neq |-> 2,
     eq_active |-> Arr(<< TRUE, TRUE >>),
     eq_type |-> Arr(<< "mjEQ_CONNECT", "mjEQ_DISTANCE" >>),
     eq_obj1id |-> Arr(<< 1, 1 >>),
     eq_obj2id |-> Arr(<< 2, 2 >>),
     eq_data |-> Arr(<< << 0, 0, 0, 0, 0, 0 >>, << 10, 0, 0, 0, 0, 0 >> >>)]

\* one contact of d->contact; force is what mj_contactForce returns for it
Contact(pos, dist, dim, g1, g2, exclude, efc, force) ==
    [pos |-> pos, frame |-> << 0, 0, 1,  1, 0, 0,  0, 1, 0 >>, dist |-> dist,
     dim |-> dim, geom1 |-> g1, geom2 |-> g2, exclude |-> exclude,
     efc_address |-> efc, force |-> force]

\* the contact lists tried: ncon contacts out of an included contact, an
\* excluded one and a distance pseudo-constraint of equality constraint 1
Contacts(dim) ==
    << Contact(<< 40, 0, 0 >>, 0, dim, 0, 1, 0, 0, << 3, 4, 0, 0, 0, 0 >>),
       Contact(<< 40, 20, 0 >>, 2, 3, 1, 2, 1, -1, << 0, 0, 0, 0, 0, 0 >>),
       Contact(<< 60, 0, 0 >>, 30, 1, 1, 2, 3, -3, << 0, 0, 0, 0, 0, 0 >>) >>

\* a mjData for Model: poses, tendon path, sensor outputs, applied wrench
\* and contacts.  dim is the dimension of the included contact, ctrl the
\* control of actuator 0
Data(dim, ctrl) ==
    [xpos |-> Arr(<< << 0, 0, 0 >>, << 40, 0, 0 >>, << 80, 0, 0 >> >>),
     xipos |-> Arr(<< << 0, 0, 0 >>, << 40, 0, 0 >>, << 80, 0, 20 >> >>),
     xmat |-> Arr(<< IDENTITY, IDENTITY, IDENTITY >>),
     xquat |-> Arr(<< << 1, 0, 0, 0 >>, << 0, 0, 0, 1 >>, << 1, 0, 0, 0 >> >>),
     ximat |-> Arr(<< IDENTITY, IDENTITY, IDENTITY >>),
     subtree_com |-> Arr(<< << 40, 0, 0 >>, << 60, 0, 10 >>, << 80, 0, 20 >> >>),
     xanchor |-> Arr(<< << 80, 0, 0 >> >>),
     xaxis |-> Arr(<< << 0, 0, 1 >> >>),
     geom_xpos |-> Arr(<< << 0, 0, 0 >>, << 40, 0, 0 >>, << 80, 0, 0 >> >>),
     geom_xmat |-> Arr(<< IDENTITY, IDENTITY, IDENTITY >>),
     site_xpos |-> Arr(<< << 100, 0, 80 >>, << 40, 0, 0 >> >>),
     site_xmat |-> Arr(<< IDENTITY, IDENTITY >>),
     cam_xpos |-> Arr(<< << 0, 0, 100 >>, << 0, 40, 100 >> >>),
     cam_xmat |-> Arr(<< IDENTITY, IDENTITY >>),
     light_xpos |-> Arr(<< << 0, 0, 200 >>, << 40, 0, 200 >> >>),
     light_xdir |-> Arr(<< << 0, 0, -1 >>, << 0, 0, -1 >> >>),
     ten_wrapadr |-> Arr(<< 0 >>),
     ten_wrapnum |-> Arr(<< 4 >>),
     wrap_obj |-> Arr(<< -1, 1, 1, -2 >>),
     wrap_xpos |-> Arr(<< << 0, 0, 0 >>, << 20, 0, 0 >>, << 40, 0, 0 >>, << 60, 0, 0 >> >>),
     sensordata |-> Arr(<< 50, -1 >>),
     xfrc_applied |-> Arr(<< << 0, 0, 0, 0, 0, 0 >>, << 0, 0, 30, 0, 0, 0 >>,
                             << 0, 0, 0, 0, 0, 0 >> >>),
     ctrl |-> Arr(<< ctrl, 0, 0, 0 >>),
     act |-> Arr(<< 0 >>),
     ncon |-> 3,
     contact |-> Arr(Contacts(dim))]

\* the group switches of mjvOption: groups 0..2 shown when on
Groups(on) == [g \in 0..(mjNGROUP - 1) |-> on /\ g < 3]

\* a mjvOption; joint, tendon and actuator groups at their defaults
Option(flags, frame, label, geoms, sitesOn) ==
    [flags |-> flags, frame |-> frame, label |-> label,
     geomgroup |-> Groups(geoms), sitegroup |-> Groups(sitesOn),
     jointgroup |-> Groups(TRUE), tendongroup |-> Groups(TRUE),
     actuatorgroup |-> Groups(TRUE)]

\* the options tried, one per group of features of mjv_addGeoms, each with
\* the body selected in the perturbation (-1: none); mjVIS_STATIC is added
\* by Init
Options ==
    << [o |-> Option({}, "mjFRAME_NONE", "mjLABEL_NONE", FALSE, FALSE), sel |-> -1],
       [o |-> Option({"mjVIS_TEXTURE", "mjVIS_CONVEXHULL"}, "mjFRAME_GEOM", "mjLABEL_GEOM",
                     TRUE, FALSE), sel |-> 1],
       [o |-> Option({"mjVIS_TRANSPARENT"}, "mjFRAME_SITE", "mjLABEL_SITE", TRUE, TRUE),
        sel |-> 2],
       [o |-> Option({"mjVIS_SKIN", "mjVIS_INERTIA"}, "mjFRAME_NONE", "mjLABEL_BODY",
                     FALSE, FALSE), sel |-> 1],
       [o |-> Option({"mjVIS_SKIN", "mjVIS_TRANSPARENT"}, "mjFRAME_BODY", "mjLABEL_SKIN",
                     FALSE, FALSE), sel |-> -1],
       [o |-> Option({}, "mjFRAME_BODY", "mjLABEL_BODY", FALSE, FALSE), sel |-> -1],
       [o |-> Option({"mjVIS_PERTOBJ", "mjVIS_SELECT"}, "mjFRAME_WORLD", "mjLABEL_SELECTION",
                     FALSE, FALSE), sel |-> 1],
       [o |-> Option({"mjVIS_SELECT"}, "mjFRAME_NONE", "mjLABEL_SELPNT", FALSE, FALSE),
        sel |-> 2],
       [o |-> Option({"mjVIS_JOINT", "mjVIS_ACTUATOR"}, "mjFRAME_NONE", "mjLABEL_ACTUATOR",
                     FALSE, FALSE), sel |-> -1],
       [o |-> Option({"mjVIS_JOINT"}, "mjFRAME_NONE", "mjLABEL_JOINT", FALSE, FALSE),
        sel |-> -1],
       [o |-> Option({"mjVIS_CAMERA"}, "mjFRAME_CAMERA", "mjLABEL_CAMERA", FALSE, FALSE),
        sel |-> -1],
       [o |-> Option({"mjVIS_LIGHT"}, "mjFRAME_LIGHT", "mjLABEL_LIGHT", FALSE, FALSE),
        sel |-> -1],
       [o |-> Option({"mjVIS_TENDON", "mjVIS_COM", "mjVIS_AUTOCONNECT"}, "mjFRAME_NONE",
                     "mjLABEL_TENDON", FALSE, FALSE), sel |-> -1],
       [o |-> Option({"mjVIS_RANGEFINDER", "mjVIS_PERTFORCE", "mjVIS_CONSTRAINT"},
                     "mjFRAME_NONE", "mjLABEL_CONSTRAINT", FALSE, FALSE), sel |-> -1],
       [o |-> Option({"mjVIS_CONTACTPOINT", "mjVIS_CONTACTFORCE"}, "mjFRAME_CONTACT",
                     "mjLABEL_CONTACTFORCE", FALSE, FALSE), sel |-> -1],
       [o |-> Option({"mjVIS_CONTACTFORCE", "mjVIS_CONTACTSPLIT"}, "mjFRAME_NONE",
                     "mjLABEL_CONTACTFORCE", FALSE, FALSE), sel |-> -1],
       [o |-> Option({"mjVIS_CONTACTPOINT", "mjVIS_CONTACTFORCE", "mjVIS_CONTACTSPLIT"},
                     "mjFRAME_NONE", "mjLABEL_CONTACTFORCE", FALSE, FALSE), sel |-> -1],
       [o |-> Option({"mjVIS_CONTACTPOINT", "mjVIS_CONTACTFORCE"}, "mjFRAME_NONE",
                     "mjLABEL_CONTACTFORCE", FALSE, FALSE), sel |-> -1],
       [o |-> Option({"mjVIS_ACTUATOR", "mjVIS_ACTIVATION"}, "mjFRAME_NONE",
                     "mjLABEL_ACTUATOR", FALSE, FALSE), sel |-> -1],
       [o |-> Option({"mjVIS_SKIN"}, "mjFRAME_SITE", "mjLABEL_SITE", FALSE, TRUE),
        sel |-> 1],
       [o |-> Option({"mjVIS_CONSTRAINT"}, "mjFRAME_NONE", "mjLABEL_CONSTRAINT",
                     FALSE, FALSE), sel |-> -1] >>

\* a mjvPerturb with body sel selected: a translation from the mouse and a
\* rotation from the second source
Perturb(sel) ==
    [select |-> sel, skinselect |-> IF sel = 1 THEN 0 ELSE -1,
     active |-> IF sel > 0 THEN {"translate"} ELSE {},
     active2 |-> IF sel > 0 THEN {"rotate"} ELSE {},
     refpos |-> << 40, 0, 60 >>, refquat |-> << 1, 0, 0, 0 >>,
     localpos |-> << 10, 0, 0 >>]

\* the models tried: every classification of body 1, and on the default
\* one every joint type, an infinite plane, a transparent sphere and site,
\* and a sphere with a material
Models ==
    { Model(w, mc, "mjJNT_HINGE", 500, 20, -1) : w \in {0, 1}, mc \in {-1, 0} }
    \cup { Model(1, -1, jt, 500, 20, -1) :
              jt \in {"mjJNT_SLIDE", "mjJNT_BALL", "mjJNT_FREE", "mjJNT_UNKNOWN"} }
    \cup { Model(1, -1, "mjJNT_HINGE", 0, 20, -1), Model(0, -1, "mjJNT_HINGE", 500, 0, -1),
           Model(1, -1, "mjJNT_HINGE", 500, 20, 0) }

\* one GL camera of the scene at pos, looking along -z
GLCamera(pos) ==
    [pos |-> pos, forward |-> << 0, 0, -1 >>, up |-> << 0, 1, 0 >>,
     frustum_center |-> 0, frustum_top |-> 1, frustum_bottom |-> -1,
     frustum_near |-> 1, frustum_far |-> 100]

\* a scene as mjv_makeScene or an earlier frame left it: ngeom slots in use,
\* every slot stale, the two cameras around x
Scene(maxgeom, ngeom, x) ==
    [maxgeom |-> maxgeom, ngeom |-> ngeom,
     geoms |-> [i \in 0..(maxgeom - 1) |-> StaleGeom],
     camera |-> Arr(<< GLCamera(<< x - 2, 0, 300 >>), GLCamera(<< x + 2, 0, 300 >>) >>),
     nlight |-> 0, lights |-> << >>, enabletransform |-> 1,
     skinvert |-> [v \in 0..2 |-> << 7, 7, 7 >>],
     skinnormal |-> [v \in 0..2 |-> << 7, 7, 7 >>]]

\* the abstract cameras tried, with the scene each is paired with in Init
\* (x of the earlier frame's cameras and whether the scene holds primitives)
Cameras ==
    << [c |-> [type |-> "mjCAMERA_FREE", fixedcamid |-> -1, trackbodyid |-> -1,
               lookat |-> << 1000, 0, 0 >>, distance |-> 100, azimuth |-> 90,
               elevation |-> 0], x |-> 0, used |-> FALSE],
       [c |-> [type |-> "mjCAMERA_TRACKING", fixedcamid |-> -1, trackbodyid |-> 1,
               lookat |-> << 10, 0, 10 >>, distance |-> 100, azimuth |-> 0,
               elevation |-> -90], x |-> 1000, used |-> TRUE],
       [c |-> [type |-> "mjCAMERA_FREE", fixedcamid |-> -1, trackbodyid |-> -1,
               lookat |-> << 1000, 0, 0 >>, distance |-> 100, azimuth |-> 90,
               elevation |-> 0], x |-> 150, used |-> FALSE],
       [c |-> [type |-> "mjCAMERA_FREE", fixedcamid |-> -1, trackbodyid |-> -1,
               lookat |-> << 1000, 0, 0 >>, distance |-> 100, azimuth |-> 90,
               elevation |-> 0], x |-> -250, used |-> FALSE],
       [c |-> [type |-> "mjCAMERA_FIXED", fixedcamid |-> 1, trackbodyid |-> -1,
               lookat |-> << 0, 0, 0 >>, distance |-> 100, azimuth |-> 0,
               elevation |-> 0], x |-> 0, used |-> TRUE],
       [c |-> [type |-> "mjCAMERA_USER", fixedcamid |-> -1, trackbodyid |-> -1,
               lookat |-> << 0, 0, 0 >>, distance |-> 100, azimuth |-> 0,
               elevation |-> 0], x |-> 1000, used |-> FALSE],
       [c |-> [type |-> "mjCAMERA_TRACKING", fixedcamid |-> -1, trackbodyid |-> 3,
               lookat |-> << 0, 0, 0 >>, distance |-> 100, azimuth |-> 0,
               elevation |-> 0], x |-> 0, used |-> FALSE],
       [c |-> [type |-> "mjCAMERA_FIXED", fixedcamid |-> -1, trackbodyid |-> -1,
               lookat |-> << 0, 0, 0 >>, distance |-> 100, azimuth |-> 0,
               elevation |-> 0], x |-> 0, used |-> FALSE],
       [c |-> [type |-> "mjCAMERA_UNKNOWN", fixedcamid |-> -1, trackbodyid |-> -1,
               lookat |-> << 0, 0, 0 >>, distance |-> 100, azimuth |-> 0,
               elevation |-> 0], x |-> 0, used |-> FALSE],
       [c |-> [type |-> "mjCAMERA_TRACKING", fixedcamid |-> -1, trackbodyid |-> 2,
               lookat |-> << 80, 0, 20 >>, distance |-> 100, azimuth |-> 0,
               elevation |-> -90], x |-> 0, used |-> FALSE] >>

\* ------------------------------------------ mjv_makeLights (1602-1658)

\* mjMAXLIGHT: capacity of scn->lights
mjMAXLIGHT == 100

\* a mjvLight after memset(0)
ZeroLight ==
    [headlight |-> 0, directional |-> FALSE, castshadow |-> FALSE,
     attenuation |-> << 0, 0, 0 >>, exponent |-> 0, cutoff |-> 0,
     ambient |-> << 0, 0, 0 >>, diffuse |-> << 0, 0, 0 >>, specular |-> << 0, 0, 0 >>,
     pos |-> << 0, 0, 0 >>, dir |-> << 0, 0, 0 >>]

\* the headlight entry (1610-1627)
headLight ==
    [ZeroLight EXCEPT !.headlight = 1, !.directional = TRUE, !.castshadow = FALSE,
                      !.ambient = m.vis.headlight.ambient,
                      !.diffuse = m.vis.headlight.diffuse,
                      !.specular = m.vis.headlight.specular]

\* the entry of model light i (1636-1653)
modelLight(i) ==
    LET l1 == [ZeroLight EXCEPT !.directional = m.light_directional[i],
                                !.castshadow = m.light_castshadow[i]]
        l2 == IF ~l1.directional
              THEN [l1 EXCEPT !.attenuation = m.light_attenuation[i],
                              !.exponent = m.light_exponent[i],
                              !.cutoff = m.light_cutoff[i]]
              ELSE l1
    IN  [l2 EXCEPT !.ambient = m.light_ambient[i], !.diffuse = m.light_diffuse[i],
                   !.specular = m.light_specular[i],
                   !.pos = d.light_xpos[i], !.dir = d.light_xdir[i]]

RECURSIVE lightListOffByOne(_, _)
\* the loop with its capacity test off by one: a plausible slip
lightListOffByOne(i, lights) ==
    IF i < m.nlight /\ Len(lights) <= mjMAXLIGHT
    THEN lightListOffByOne(i + 1, IF m.light_active[i] THEN Append(lights, modelLight(i))
                                  ELSE lights)
    ELSE lights

RECURSIVE lightList(_, _)
\* the loop of 1630-1657 from light i on, lights being the list so far
lightList(i, lights) ==
    IF i < m.nlight /\ Len(lights) < mjMAXLIGHT
    THEN lightList(i + 1, IF m.light_active[i] THEN Append(lights, modelLight(i))
                          ELSE lights)
    ELSE lights

\* mjv_makeLights: the light list of the scene, rebuilt from nothing
mjv_makeLights(scene) ==
    LET lights == lightList(0, IF m.vis.headlight.active THEN << headLight >> ELSE << >>)
    IN  [scene EXCEPT !.nlight = Len(lights), !.lights = lights]

\* ----------------------------------------- mjv_updateCamera (1663-1765)

\* mju_cos of an angle in degrees, on the multiples of 90
CosDeg(a) == CASE a % 360 = 0 -> 1 [] a % 360 = 180 -> -1 [] OTHER -> 0

\* mju_sin of an angle in degrees, on the multiples of 90
SinDeg(a) == CASE a % 360 = 90 -> 1 [] a % 360 = 270 -> -1 [] OTHER -> 0

\* tanf(fovy*pi/360) on the field of view the models use: tan(45 deg) = 1
TanHalf(fovy) == IF fovy = 90 THEN 1 ELSE 0

\* the abstract camera types mjv_updateCamera handles
CameraTypes == {"mjCAMERA_FREE", "mjCAMERA_TRACKING", "mjCAMERA_FIXED", "mjCAMERA_USER"}

\* the checks without the default case of the switch, an unrecognised type
\* being handled as a free camera: a plausible slip
cameraErrorNoDefault(c) ==
    \/ c.type = "mjCAMERA_TRACKING" /\ (c.trackbodyid < 0 \/ c.trackbodyid >= m.nbody)
    \/ c.type = "mjCAMERA_FIXED" /\ (c.fixedcamid < 0 \/ c.fixedcamid >= m.ncam)

\* whether mjv_updateCamera raises mju_error for camera c
cameraError(c) ==
    \/ c.type \notin CameraTypes
    \/ c.type = "mjCAMERA_TRACKING" /\ (c.trackbodyid < 0 \/ c.trackbodyid >= m.nbody)
    \/ c.type = "mjCAMERA_FIXED" /\ (c.fixedcamid < 0 \/ c.fixedcamid >= m.ncam)

\* the look-at point moved away from the tracked body: a plausible slip of
\* sign
trackLookatAway(c) ==
    IF c.type = "mjCAMERA_TRACKING"
    THEN LET com == d.subtree_com[c.trackbodyid]
         IN  [r \in 1..3 |-> c.lookat[r] - (2 * (com[r] - c.lookat[r])) \div 10]
    ELSE c.lookat

\* cam->lookat after the call: moved by 0.2 of the way to the tracked
\* subtree centre of mass when tracking (1692-1700)
trackLookat(c) ==
    IF c.type = "mjCAMERA_TRACKING"
    THEN LET com == d.subtree_com[c.trackbodyid]
         IN  [r \in 1..3 |-> c.lookat[r] + (2 * (com[r] - c.lookat[r])) \div 10]
    ELSE c.lookat

\* headpos, forward, up, right, ipd and fovy of the switch (1680-1741)
cameraFrame(c) ==
    IF c.type = "mjCAMERA_FIXED"
    THEN LET mat == d.cam_xmat[c.fixedcamid]
         IN  [headpos |-> d.cam_xpos[c.fixedcamid],
              forward |-> << -mat[3], -mat[6], -mat[9] >>,
              up |-> << mat[2], mat[5], mat[8] >>,
              right |-> << mat[1], mat[4], mat[7] >>,
              ipd |-> m.cam_ipd[c.fixedcamid], fovy |-> m.cam_fovy[c.fixedcamid]]
    ELSE LET ca == CosDeg(c.azimuth)
             sa == SinDeg(c.azimuth)
             ce == CosDeg(c.elevation)
             se == SinDeg(c.elevation)
             forward == << ce * ca, ce * sa, se >>
         IN  [headpos |-> AddScl3(trackLookat(c), forward, -c.distance),
              forward |-> forward,
              up |-> << -se * ca, -se * sa, ce >>,
              right |-> << sa, -ca, 0 >>,
              ipd |-> m.vis.global.ipd, fovy |-> m.vis.global.fovy]

\* the GL camera of one view with the eyes a whole ipd from the head: a
\* plausible slip
viewCameraFullIpd(c, view) ==
    LET f == cameraFrame(c)
        znear == m.vis.map.znear * m.stat.extent
    IN  [pos |-> AddScl3(f.headpos, f.right, IF view = 1 THEN f.ipd ELSE -f.ipd),
         forward |-> f.forward, up |-> f.up,
         frustum_center |-> 0, frustum_top |-> znear * TanHalf(f.fovy),
         frustum_bottom |-> -(znear * TanHalf(f.fovy)), frustum_near |-> znear,
         frustum_far |-> m.vis.map.zfar * m.stat.extent]

\* the GL camera of one view (1744-1761); ipd is even in the models
viewCamera(c, view) ==
    LET f == cameraFrame(c)
        half == (IF view = 1 THEN f.ipd ELSE -f.ipd) \div 2
        znear == m.vis.map.znear * m.stat.extent
    IN  [pos |-> AddScl3(f.headpos, f.right, half), forward |-> f.forward, up |-> f.up,
         frustum_center |-> 0, frustum_top |-> znear * TanHalf(f.fovy),
         frustum_bottom |-> -(znear * TanHalf(f.fovy)), frustum_near |-> znear,
         frustum_far |-> m.vis.map.zfar * m.stat.extent]

\* mjv_updateCamera on the scene, for a camera that raises no error
mjv_updateCamera(c, scene) ==
    IF c.type = "mjCAMERA_USER"
    THEN scene
    ELSE [scene EXCEPT !.camera = Arr(<< viewCamera(c, 0), viewCamera(c, 1) >>),
                       !.enabletransform = 0]

\* -------------------------------------------- mjv_updateSkin (1770-1891)

\* mju_negQuat
NegQuat(q) == << q[1], -q[2], -q[3], -q[4] >>

\* mju_mulQuat
MulQuat(a, b) ==
    << a[1]*b[1] - a[2]*b[2] - a[3]*b[3] - a[4]*b[4],
       a[1]*b[2] + a[2]*b[1] + a[3]*b[4] - a[4]*b[3],
       a[1]*b[3] - a[2]*b[4] + a[3]*b[1] + a[4]*b[2],
       a[1]*b[4] + a[2]*b[3] - a[3]*b[2] + a[4]*b[1] >>

\* mju_quat2Mat of a unit quaternion
Quat2Mat(q) ==
    << q[1]*q[1] + q[2]*q[2] - q[3]*q[3] - q[4]*q[4], 2*(q[2]*q[3] - q[1]*q[4]),
       2*(q[2]*q[4] + q[1]*q[3]),
       2*(q[2]*q[3] + q[1]*q[4]), q[1]*q[1] - q[2]*q[2] + q[3]*q[3] - q[4]*q[4],
       2*(q[3]*q[4] - q[1]*q[2]),
       2*(q[2]*q[4] - q[1]*q[3]), 2*(q[3]*q[4] + q[1]*q[2]),
       q[1]*q[1] - q[2]*q[2] - q[3]*q[3] + q[4]*q[4] >>

\* mju_cross
Cross(a, b) ==
    << a[2]*b[3] - a[3]*b[2], a[3]*b[1] - a[1]*b[3], a[1]*b[2] - a[2]*b[1] >>

\* the contribution of bone j with the bind position left out of the
\* translation: a plausible slip
boneVertexNoBindPos(j, vertadr, vid) ==
    LET bodyid == m.skin_bonebodyid[j]
        rotate == Quat2Mat(MulQuat(d.xquat[bodyid], NegQuat(m.skin_bonebindquat[j])))
        pos1 == AddScl3(MulMatVec(rotate, m.skin_vert[vertadr + vid]), d.xpos[bodyid], 1)
        ks == {kk \in m.skin_bonevertadr[j]..(m.skin_bonevertadr[j] + m.skin_bonevertnum[j] - 1) :
                  m.skin_bonevertid[kk] = vid}
    IN  IF ks = {} THEN << 0, 0, 0 >>
        ELSE LET kk == CHOOSE x \in ks : TRUE
             IN  [r \in 1..3 |-> m.skin_bonevertweight[kk] * pos1[r]]

\* the contribution of bone j to vertex vid of a skin at vertadr (1811-1833),
\* zero when the bone does not hold the vertex
boneVertex(j, vertadr, vid) ==
    LET bodyid == m.skin_bonebodyid[j]
        rotate == Quat2Mat(MulQuat(d.xquat[bodyid], NegQuat(m.skin_bonebindquat[j])))
        translate == AddScl3(d.xpos[bodyid], MulMatVec(rotate, m.skin_bonebindpos[j]), -1)
        pos1 == AddScl3(MulMatVec(rotate, m.skin_vert[vertadr + vid]), translate, 1)
        ks == {kk \in m.skin_bonevertadr[j]..(m.skin_bonevertadr[j] + m.skin_bonevertnum[j] - 1) :
                  m.skin_bonevertid[kk] = vid}
    IN  IF ks = {} THEN << 0, 0, 0 >>
        ELSE LET kk == CHOOSE x \in ks : TRUE
             IN  [r \in 1..3 |-> m.skin_bonevertweight[kk] * pos1[r]]

RECURSIVE skinVertex(_, _, _, _)
\* the position of vertex vid accumulated over bones j..hi (1784-1834)
skinVertex(i, j, hi, vid) ==
    IF j > hi THEN << 0, 0, 0 >>
    ELSE AddScl3(boneVertex(j, m.skin_vertadr[i], vid), skinVertex(i, j + 1, hi, vid), 1)

RECURSIVE skinNormal(_, _, _, _, _)
\* the normal of vertex vid accumulated over faces f..hi (1837-1861)
skinNormal(vert, vertadr, f, hi, vid) ==
    IF f > hi THEN << 0, 0, 0 >>
    ELSE LET face == m.skin_face[f]
             p(r) == vert[vertadr + face[r]]
             nrm == Cross(AddScl3(p(2), p(1), -1), AddScl3(p(3), p(1), -1))
             rest == skinNormal(vert, vertadr, f + 1, hi, vid)
             times == Cardinality({r \in 1..3 : face[r] = vid})
         IN  AddScl3(rest, nrm, times)

\* a normal scaled by 1/max(mjMINVAL, length) (1864-1875); lengths are
\* perfect squares in the models
Normalize(n) ==
    LET len == Norm3(n)
    IN  IF len = 0 THEN n ELSE [r \in 1..3 |-> n[r] \div len]

RECURSIVE skinLoopNoClear(_, _)
\* the loop without the two memsets, positions and normals piling up on
\* what the buffers held: a plausible slip
skinLoopNoClear(i, scene) ==
    IF i >= m.nskin THEN scene
    ELSE LET va == m.skin_vertadr[i]
             vs == va..(va + m.skin_vertnum[i] - 1)
             bhi == m.skin_boneadr[i] + m.skin_bonenum[i] - 1
             fhi == m.skin_faceadr[i] + m.skin_facenum[i] - 1
             vert == [v \in DOMAIN scene.skinvert |->
                         IF v \in vs
                         THEN AddScl3(scene.skinvert[v],
                                      skinVertex(i, m.skin_boneadr[i], bhi, v - va), 1)
                         ELSE scene.skinvert[v]]
             normal == [v \in DOMAIN scene.skinnormal |->
                         IF v \in vs
                         THEN Normalize(AddScl3(scene.skinnormal[v],
                                  skinNormal(vert, va, m.skin_faceadr[i], fhi, v - va), 1))
                         ELSE scene.skinnormal[v]]
             inflated == [v \in DOMAIN vert |->
                         IF v \in vs /\ m.skin_inflate[i] # 0
                         THEN AddScl3(vert[v], normal[v], m.skin_inflate[i])
                         ELSE vert[v]]
         IN  skinLoopNoClear(i + 1, [scene EXCEPT !.skinvert = inflated,
                                                  !.skinnormal = normal])

RECURSIVE skinLoop(_, _)
\* the loop over skins from skin i on: positions, normals, inflation
skinLoop(i, scene) ==
    IF i >= m.nskin THEN scene
    ELSE LET va == m.skin_vertadr[i]
             vs == va..(va + m.skin_vertnum[i] - 1)
             bhi == m.skin_boneadr[i] + m.skin_bonenum[i] - 1
             fhi == m.skin_faceadr[i] + m.skin_facenum[i] - 1
             vert == [v \in DOMAIN scene.skinvert |->
                         IF v \in vs THEN skinVertex(i, m.skin_boneadr[i], bhi, v - va)
                         ELSE scene.skinvert[v]]
             normal == [v \in DOMAIN scene.skinnormal |->
                         IF v \in vs
                         THEN Normalize(skinNormal(vert, va, m.skin_faceadr[i], fhi, v - va))
                         ELSE scene.skinnormal[v]]
             inflated == [v \in DOMAIN vert |->
                         IF v \in vs /\ m.skin_inflate[i] # 0
                         THEN AddScl3(vert[v], normal[v], m.skin_inflate[i])
                         ELSE vert[v]]
         IN  skinLoop(i + 1, [scene EXCEPT !.skinvert = inflated, !.skinnormal = normal])

\* mjv_updateSkin: skin vertex positions and normals of the scene
mjv_updateSkin(scene) == skinLoop(0, scene)

\* ------------------------------------------------------------- Init

\* no direct call of mjv_makeConnector or setMaterial
NoArgs == [fn |-> "none"]

\* the history at the start: no call made yet
NoHist ==
    [calls |-> 0, ngeom0 |-> 0, warning0 |-> 0, refused |-> FALSE, contact |-> FALSE,
     skipped |-> 0, cam0 |-> << >>, first |-> << >>, set |-> FALSE]

\* the state before the first call, for given arguments: option oi with
\* mjVIS_STATIC as st, abstract camera ci and the scene paired with it
InitWith(model, data, oi, st, cmask, maxgeom, ci) ==
    /\ m = model
    /\ d = data
    /\ vopt = [Options[oi].o EXCEPT
                 !.flags = IF st THEN @ \cup {"mjVIS_STATIC"} ELSE @]
    /\ pert = Perturb(Options[oi].sel)
    /\ catmask = cmask
    /\ cam = Cameras[ci].c
    /\ scn = Scene(maxgeom, IF Cameras[ci].used THEN Min(2, maxgeom) ELSE 0, Cameras[ci].x)
    /\ warning = 0
    /\ pc = "idle"
    /\ caller = "api"
    /\ sites = << >>
    /\ k = 0
    /\ thisgeom = -1
    /\ args = NoArgs
    /\ ret = StaleGeom
    /\ hist = NoHist

\* the model with a dynamic body 1 and nothing special
BaseModel == Model(1, -1, "mjJNT_HINGE", 500, 20, -1)

\* the control ranges of actuator 0 tried: straddling zero, positive and
\* negative
ControlRanges == {<< -2, 2 >>, << 1, 3 >>, << -3, -1 >>}

\* BaseModel with every actuator stateful, the activation of actuator 0
\* limited to range and its control not limited
StatefulModel(range) ==
    [BaseModel EXCEPT !.na = 4, !.actuator_dyntype = Arr(<< 1, 1, 1, 1 >>),
                      !.actuator_ctrllimited[0] = FALSE,
                      !.actuator_actlimited[0] = TRUE,
                      !.actuator_actrange[0] = range]

\* the exclude flags of the three contacts tried: 3 flags a distance
\* pseudo-constraint
ExcludePatterns == {<< a, b, c >> : a \in {0, 3}, b \in {1, 3}, c \in {0, 3}}

\* three contacts with exclude flags ex; those flagged 3 carry the address
\* of equality constraint 1, 0 and 1
FlaggedContacts(ex) ==
    << Contact(<< 40, 0, 0 >>, 0, 3, 0, 1, ex[1], IF ex[1] = 3 THEN -3 ELSE 0,
               << 3, 4, 0, 0, 0, 0 >>),
       Contact(<< 40, 20, 0 >>, 2, 3, 1, 2, ex[2], IF ex[2] = 3 THEN -2 ELSE -1,
               << 0, 0, 0, 0, 0, 0 >>),
       Contact(<< 60, 0, 0 >>, 30, 1, 1, 2, ex[3], IF ex[3] = 3 THEN -3 ELSE 0,
               << 0, 0, 0, 0, 0, 0 >>) >>

\* the rod lengths of the slider-crank tried: too short to reach the crank
\* pin, just reaching it, and longer
CrankLengths == {20, 60, 75}

\* the calls tried: every classification of body 1 under every mask and
\* option; every model under every capacity; every camera; the contact
\* dimensions; the actuator controls and control ranges; the rod lengths;
\* the static geoms alone, the last of them fully transparent; the contact
\* lists with distance pseudo-constraints
Init ==
    \/ \E w \in {0, 1}, mc \in {-1, 0}, oi \in 1..Len(Options), st \in BOOLEAN,
          cmask \in SUBSET Categories :
          InitWith(Model(w, mc, "mjJNT_HINGE", 500, 20, -1), Data(3, 1), oi, st, cmask,
                   MaxGeom, 1)
    \/ \E model \in Models, oi \in 1..Len(Options), maxgeom \in 0..MaxGeom,
          cmask \in {Categories, {"decor"}} :
          InitWith(model, Data(3, 1), oi, TRUE, cmask, maxgeom, 1)
    \/ \E ci \in 1..Len(Cameras), oi \in {1, 2}, maxgeom \in {2, MaxGeom} :
          InitWith(Model(1, -1, "mjJNT_HINGE", 0, 20, -1), Data(3, 1), oi, TRUE,
                   Categories, maxgeom, ci)
    \/ \E dim \in {1, 3, 4}, oi \in {15, 16, 17, 18}, cmask \in {Categories, {"decor"}} :
          InitWith(BaseModel, Data(dim, 1), oi, TRUE, cmask, MaxGeom, 1)
    \/ \E ctrl \in -4..4, range \in ControlRanges :
          \/ InitWith([BaseModel EXCEPT !.actuator_ctrlrange[0] = range], Data(3, ctrl), 9,
                      TRUE, Categories, MaxGeom, 1)
          \/ InitWith(StatefulModel(range), [Data(3, 0) EXCEPT !.act = Arr(<< ctrl, 0, 0, 0 >>)], 19,
                      TRUE, Categories, MaxGeom, 1)
    \/ \E rod \in CrankLengths, oi \in {1, 9}, cmask \in {Categories, {"dynamic"}},
          maxgeom \in {1, 2, MaxGeom} :
          InitWith([BaseModel EXCEPT !.actuator_cranklength[3] = rod], Data(3, 1), oi,
                   TRUE, cmask, maxgeom, 1)
    \/ \E oi \in {2, 3}, maxgeom \in 0..2 :
          InitWith(Model(0, -1, "mjJNT_HINGE", 500, 0, -1), Data(3, 1), oi, TRUE,
                   {"static"}, maxgeom, 1)
    \/ \E ex \in ExcludePatterns, ncon \in 0..3, oi \in {1, 21} :
          InitWith(BaseModel,
                   [Data(3, 1) EXCEPT !.ncon = ncon, !.contact = Arr(FlaggedContacts(ex))],
                   oi, TRUE, {"decor"}, MaxGeom, 1)

\* ----------------------------------------------------------- actions

\* the visible primitives of a scene: slots 0..ngeom-1, in order
Prims(scene) == [i \in 1..scene.ngeom |-> scene.geoms[i - 1]]

\* the scene with slot idx overwritten; a write past the end of the buffer
\* lands outside scn->geoms and leaves the slots as they are
WriteSlot(scene, idx, g) ==
    IF idx \in DOMAIN scene.geoms
    THEN [scene EXCEPT !.geoms[idx] = g]
    ELSE scene

\* where control goes when mjv_addGeoms returns
AfterAddGeoms == IF caller = "updateScene" THEN "makeLights" ELSE "done"

\* the START site the running assembly function stands at
AtSite ==
    /\ pc \in {"addGeoms", "addContactGeom"}
    /\ k < Len(sites)

\* the START sites a refusal at the current site leaves unvisited, those of
\* the contact pass included
Unvisited ==
    (Len(sites) - k - 1)
    + (IF pc = "addGeoms" /\ contactPass(catmask) THEN Len(contactSection) ELSE 0)

\* the history when a call starts with count ngeom
CallHist(ngeom) ==
    [hist EXCEPT !.calls = @ + 1, !.ngeom0 = ngeom, !.warning0 = warning,
                 !.refused = FALSE, !.contact = FALSE, !.skipped = 0,
                 !.cam0 = cam]

\* mjv_updateScene, up to the first START of mjv_addGeoms: the count is
\* cleared and the assembly begins
mjv_updateScene ==
    /\ pc \in {"idle", "done"}
    /\ hist.calls < MaxCalls
    /\ scn' = [scn EXCEPT !.ngeom = 0]
    /\ pc' = "addGeoms"
    /\ caller' = "updateScene"
    /\ sites' = addGeomsSites(catmask)
    /\ k' = 0
    /\ hist' = CallHist(0)
    /\ UNCHANGED << inputs, cam, warning, thisgeom, args, ret >>

\* mjv_addGeoms called by the user: primitives are appended to the scene
mjv_addGeoms ==
    /\ pc \in {"idle", "done"}
    /\ hist.calls < MaxCalls
    /\ pc' = "addGeoms"
    /\ caller' = "api"
    /\ sites' = addGeomsSites(catmask)
    /\ k' = 0
    /\ hist' = CallHist(scn.ngeom)
    /\ UNCHANGED << inputs, cam, scn, warning, thisgeom, args, ret >>

\* START with the buffer full that returns without the warning: a slip
START_fullSilent ==
    /\ AtSite
    /\ BufferFull(scn.ngeom, scn.maxgeom)
    /\ pc' = AfterAddGeoms
    /\ hist' = [hist EXCEPT !.refused = TRUE, !.skipped = Unvisited]
    /\ UNCHANGED << inputs, cam, scn, warning, caller, sites, k, thisgeom, args, ret >>

\* START with the buffer full that drops the emission and goes on with the
\* next element instead of returning: a plausible variant
START_fullContinue ==
    /\ AtSite
    /\ BufferFull(scn.ngeom, scn.maxgeom)
    /\ warning' = warning + 1
    /\ k' = k + 1
    /\ hist' = [hist EXCEPT !.refused = TRUE]
    /\ UNCHANGED << inputs, cam, scn, pc, caller, sites, thisgeom, args, ret >>

\* START with the buffer full: the warning is raised and the assembly
\* function returns (addContactGeom returns to the end of mjv_addGeoms)
START_full ==
    /\ AtSite
    /\ BufferFull(scn.ngeom, scn.maxgeom)
    /\ warning' = warning + 1
    /\ pc' = AfterAddGeoms
    /\ hist' = [hist EXCEPT !.refused = TRUE, !.skipped = Unvisited]
    /\ UNCHANGED << inputs, cam, scn, caller, sites, k, thisgeom, args, ret >>

\* START with room, the text up to FINISH, and FINISH: the slot is filled
\* and the count advances
START_FINISH ==
    /\ AtSite
    /\ ~BufferFull(scn.ngeom, scn.maxgeom)
    /\ sites[k + 1].end = "finish"
    /\ LET s == sites[k + 1]
           g == START(IF scn.ngeom \in DOMAIN scn.geoms THEN scn.geoms[scn.ngeom]
                      ELSE StaleGeom, s.objtype, s.i, s.category, scn.ngeom, s.site)
       IN  scn' = [WriteSlot(scn, scn.ngeom, Body(s, g, scn.camera)) EXCEPT
                      !.ngeom = @ + 1]
    /\ thisgeom' = scn.ngeom
    /\ k' = k + 1
    /\ UNCHANGED << inputs, cam, warning, pc, caller, sites, args, ret, hist >>

\* START with room, then `continue` because the element is fully
\* transparent: the slot is written but not counted
START_continue ==
    /\ AtSite
    /\ ~BufferFull(scn.ngeom, scn.maxgeom)
    /\ sites[k + 1].end = "skip"
    /\ LET s == sites[k + 1]
           g == START(IF scn.ngeom \in DOMAIN scn.geoms THEN scn.geoms[scn.ngeom]
                      ELSE StaleGeom, s.objtype, s.i, s.category, scn.ngeom, s.site)
       IN  scn' = WriteSlot(scn, scn.ngeom, Body(s, g, scn.camera))
    /\ thisgeom' = scn.ngeom
    /\ k' = k + 1
    /\ UNCHANGED << inputs, cam, warning, pc, caller, sites, args, ret, hist >>

\* START with room, then mju_error_i on an unknown joint type: the call
\* does not return
START_error ==
    /\ AtSite
    /\ ~BufferFull(scn.ngeom, scn.maxgeom)
    /\ sites[k + 1].end = "fatal"
    /\ LET s == sites[k + 1]
           g == START(IF scn.ngeom \in DOMAIN scn.geoms THEN scn.geoms[scn.ngeom]
                      ELSE StaleGeom, s.objtype, s.i, s.category, scn.ngeom, s.site)
       IN  scn' = WriteSlot(scn, scn.ngeom, g)
    /\ thisgeom' = scn.ngeom
    /\ pc' = "fatal"
    /\ UNCHANGED << inputs, cam, warning, caller, sites, k, args, ret, hist >>

\* line 1592: the end of the main pass with the decor bit set, the contact
\* pass begins
addGeoms_contact ==
    /\ pc = "addGeoms"
    /\ k = Len(sites)
    /\ contactPass(catmask)
    /\ pc' = "addContactGeom"
    /\ sites' = contactSection
    /\ k' = 0
    /\ hist' = [hist EXCEPT !.contact = TRUE]
    /\ UNCHANGED << inputs, cam, scn, warning, caller, thisgeom, args, ret >>

\* the end of mjv_addGeoms: after the main pass without the decor bit, or
\* after addContactGeom
addGeoms_return ==
    /\ \/ pc = "addGeoms" /\ ~contactPass(catmask)
       \/ pc = "addContactGeom"
    /\ k = Len(sites)
    /\ pc' = AfterAddGeoms
    /\ UNCHANGED << inputs, cam, scn, warning, caller, sites, k, thisgeom, args, ret, hist >>

\* mjv_updateScene after mjv_addGeoms, line 1901: the light list is rebuilt
updateScene_lights ==
    /\ pc = "makeLights"
    /\ scn' = mjv_makeLights(scn)
    /\ pc' = "updateCamera"
    /\ UNCHANGED << inputs, cam, warning, caller, sites, k, thisgeom, args, ret, hist >>

\* line 1904: mjv_updateCamera raises mju_error on an invalid camera
updateScene_error ==
    /\ pc = "updateCamera"
    /\ cameraError(cam)
    /\ pc' = "fatal"
    /\ UNCHANGED << inputs, cam, scn, warning, caller, sites, k, thisgeom, args, ret, hist >>

\* line 1904: mjv_updateCamera moves the look-at point of a tracking camera
\* and computes the two cameras of the scene
updateScene_camera ==
    /\ pc = "updateCamera"
    /\ ~cameraError(cam)
    /\ scn' = mjv_updateCamera(cam, scn)
    /\ cam' = IF cam.type = "mjCAMERA_USER" THEN cam
              ELSE [cam EXCEPT !.lookat = trackLookat(cam)]
    /\ pc' = "updateSkin"
    /\ UNCHANGED << inputs, warning, caller, sites, k, thisgeom, args, ret, hist >>

\* the end of mjv_updateScene updating the skins whatever the flag says: a
\* plausible slip
updateScene_returnSkinAlways ==
    /\ pc = "updateSkin"
    /\ LET s2 == mjv_updateSkin(scn)
       IN  /\ scn' = s2
           /\ hist' = IF hist.set THEN hist
                      ELSE [hist EXCEPT !.set = TRUE, !.first = Prims(s2)]
    /\ pc' = "done"
    /\ UNCHANGED << inputs, cam, warning, caller, sites, k, thisgeom, args, ret >>

\* lines 1907-1909: with mjVIS_SKIN the skins are updated; the call returns
updateScene_return ==
    /\ pc = "updateSkin"
    /\ LET s2 == IF Flag("mjVIS_SKIN") THEN mjv_updateSkin(scn) ELSE scn
       IN  /\ scn' = s2
           /\ hist' = IF hist.set THEN hist
                      ELSE [hist EXCEPT !.set = TRUE, !.first = Prims(s2)]
    /\ pc' = "done"
    /\ UNCHANGED << inputs, cam, warning, caller, sites, k, thisgeom, args, ret >>

Next ==
    \/ mjv_updateScene
    \/ mjv_addGeoms
    \/ START_full
    \/ START_FINISH
    \/ START_continue
    \/ START_error
    \/ addGeoms_contact
    \/ addGeoms_return
    \/ updateScene_lights
    \/ updateScene_error
    \/ updateScene_camera
    \/ updateScene_return

Spec == Init /\ [][Next]_vars

\* ------------------------------------------------- what the claims use

\* the slots in use that a call of the model filled (an earlier frame's
\* primitives, which a direct mjv_addGeoms appends to, are stale)
Emitted == {i \in 0..(scn.ngeom - 1) : scn.geoms[i].site # "stale"}

\* the body that owns primitive g: the body of an inertia box, body frame
\* or body label, the body a model geom or site is attached to; -1 for
\* anything else
OwnerBody(g) ==
    CASE g.site \in {"inertia", "bodyframe", "bodylabel"} -> g.objid
      [] g.site = "geom" -> m.geom_bodyid[g.objid]
      [] g.site = "site" -> m.site_bodyid[g.objid]
      [] OTHER -> -1

\* the classification rule as the specification words it: welded to the
\* world and not a mocap body
StaticBody(b) == m.body_weldid[b] = 0 /\ m.body_mocapid[b] = -1

\* every START site of one pass with the mask of the call, contact pass
\* included
AllSites ==
    addGeomsSites(catmask) \o (IF contactPass(catmask) THEN contactSection ELSE << >>)

\* the number of primitives the pass emits when the buffer never fills
WouldEmit ==
    Cardinality({i \in 1..Len(AllSites) :
                    /\ AllSites[i].end = "finish"
                    /\ \A j \in 1..(i - 1) : AllSites[j].end # "fatal"})

\* ---------------------------------------------------------------- C1

\* C1: at every point of mjv_updateScene, mjv_addGeoms and addContactGeom
\* the primitive count is between 0 and maxgeom, and the slot START hands
\* out to be written has an index strictly below maxgeom.
C1_CountWithinCapacity ==
    /\ 0 <= scn.ngeom
    /\ scn.ngeom <= scn.maxgeom
    /\ thisgeom < scn.maxgeom

\* C1 witness: a buffer that was filled to its last slot during the call
\* and then refused an emission
C1_FilledThenRefused ==
    /\ hist.refused
    /\ scn.maxgeom > 0
    /\ scn.ngeom = scn.maxgeom
    /\ thisgeom = scn.maxgeom - 1

\* ---------------------------------------------------------------- C2

\* C2: when a pass of mjv_updateScene would emit more than maxgeom
\* primitives with unlimited capacity, then once mjv_addGeoms has returned
\* the count is exactly maxgeom and the buffer-full warning has been raised
\* in this call; and a call that refused an emission does not end in a fatal
\* error unless the camera is invalid.
C2_OverflowFillsExactly ==
    /\ (caller = "updateScene" /\ pc \in {"makeLights", "done"}
        /\ WouldEmit > scn.maxgeom)
       => (scn.ngeom = scn.maxgeom /\ hist.refused /\ warning > hist.warning0)
    /\ (caller = "updateScene" /\ hist.refused /\ ~cameraError(cam)) => pc # "fatal"

\* C2 witness: mjv_updateScene has returned from a pass that had more to
\* emit than the scene holds
C2_OverflowReturned ==
    /\ caller = "updateScene"
    /\ pc = "done"
    /\ scn.maxgeom > 0
    /\ WouldEmit > scn.maxgeom
    /\ scn.ngeom = scn.maxgeom

\* ---------------------------------------------------------------- C3

\* C3 as claimed: after a refused emission mjv_addGeoms still visits every
\* remaining START site, those of the contact pass included, so that at its
\* return none is left unvisited.
C3_RefusalSkipsOnlyOne ==
    (hist.refused /\ pc \in {"makeLights", "done"}) => hist.skipped = 0

\* C3 amended: a refused emission ends the assembly.  mjv_addGeoms returns
\* at the refused START site: no later site is visited, the contact pass is
\* not entered if it had not begun, the warning is raised once, and the
\* count stays at maxgeom.
C3_RefusalEndsAssembly ==
    hist.refused =>
        /\ pc \notin {"addGeoms", "addContactGeom"}
        /\ k < Len(sites)
        /\ hist.skipped = (Len(sites) - k - 1)
                          + (IF ~hist.contact /\ contactPass(catmask)
                             THEN Len(contactSection) ELSE 0)
        /\ warning = hist.warning0 + 1
        /\ scn.ngeom = scn.maxgeom

\* C3 witness: mjv_updateScene returned after a refusal in the main pass
\* that left contacts to draw and the contact pass not entered
C3_ContactPassNeverEntered ==
    /\ hist.refused
    /\ pc = "done"
    /\ caller = "updateScene"
    /\ ~hist.contact
    /\ contactPass(catmask)
    /\ Len(contactSection) > 0
    /\ hist.skipped > Len(contactSection)

\* ---------------------------------------------------------------- C4

\* C4 as claimed: every primitive emitted by mjv_addGeoms has a category
\* among static, dynamic and decor, and an inertia box, model geom or site
\* carries the classification of its body: static iff the body is welded to
\* the world and is not a mocap body, dynamic otherwise.
C4_CategoryOfOwner ==
    \A i \in Emitted :
        LET g == scn.geoms[i]
        IN  /\ g.category \in Categories
            /\ g.site \in {"inertia", "geom", "site"}
               => g.category = (IF StaticBody(OwnerBody(g)) THEN "static" ELSE "dynamic")

\* ---------------------------------------------------------------- C5

\* C5: a model geom or a site is classified static exactly when its body has
\* weld id 0 and mocap id -1, dynamic in every other case, and is emitted
\* only when the mask holds that class; a primitive whose owning-object type
\* is unknown (frame, marker, label, connector, force arrow) is decor.
C5_Classification ==
    \A i \in Emitted :
        LET g == scn.geoms[i]
            b == OwnerBody(g)
        IN  /\ g.site \in {"geom", "site"}
               => /\ (g.category = "static") <=> StaticBody(b)
                  /\ (g.category = "dynamic") <=> ~StaticBody(b)
                  /\ g.category \in catmask
            /\ g.objtype = "unknown" => g.category = "decor"

\* C5 witness: a geom of a mocap body welded to the world, emitted as
\* dynamic, next to a primitive of unknown owner
C5_MocapGeomAndDecor ==
    \E i, j \in Emitted :
        /\ scn.geoms[i].site = "geom"
        /\ m.body_weldid[OwnerBody(scn.geoms[i])] = 0
        /\ m.body_mocapid[OwnerBody(scn.geoms[i])] # -1
        /\ scn.geoms[i].category = "dynamic"
        /\ scn.geoms[j].objtype = "unknown"

\* ---------------------------------------------------------------- C6

\* C6: with mjVIS_STATIC off, whatever the mask, mjv_addGeoms emits no
\* primitive of category static and no inertia box, model geom, site, body
\* frame or body label of a static body.
C6_StaticHidden ==
    ~Flag("mjVIS_STATIC") =>
        \A i \in Emitted :
            LET g == scn.geoms[i]
            IN  /\ g.category # "static"
                /\ g.site \in {"inertia", "geom", "site", "bodyframe", "bodylabel"}
                   => ~StaticBody(OwnerBody(g))

\* C6 witness: a finished call with mjVIS_STATIC off and the static bit in
\* the mask, on a model whose body 1 is static, that emitted an element of
\* the dynamic body
C6_MaskedStaticBody ==
    /\ ~Flag("mjVIS_STATIC")
    /\ "static" \in catmask
    /\ StaticBody(1)
    /\ pc = "done"
    /\ \E i \in Emitted :
          /\ scn.geoms[i].site \in {"inertia", "geom", "site", "bodyframe", "bodylabel"}
          /\ OwnerBody(scn.geoms[i]) = 2

\* ---------------------------------------------------------------- C7

\* C7 as claimed: the primitive list mjv_updateScene produces is determined
\* by the arguments of the call alone.  The arguments of the model never
\* change between calls unless the camera tracks, so every call of
\* mjv_updateScene yields the list the first one yielded, whatever the
\* scene held before it.
C7_ListDependsOnInputsOnly ==
    (pc = "done" /\ caller = "updateScene" /\ cam.type # "mjCAMERA_TRACKING")
        => Prims(scn) = hist.first

\* ------------------------------- direct calls of mjv_makeConnector

\* the state before a direct call with arguments a on scene scene: the
\* model, state and options are the plain ones and play no part
InitCall(a, scene, at) ==
    /\ m = BaseModel
    /\ d = Data(3, 1)
    /\ vopt = Options[1].o
    /\ pert = Perturb(-1)
    /\ catmask = Categories
    /\ cam = Cameras[1].c
    /\ scn = scene
    /\ warning = 0
    /\ pc = at
    /\ caller = "api"
    /\ sites = << >>
    /\ k = 0
    /\ thisgeom = -1
    /\ args = a
    /\ ret = StaleGeom
    /\ hist = [NoHist EXCEPT !.ngeom0 = scene.ngeom]

\* the endpoints A tried
ConnectorPoints == {<< 0, 0, 0 >>, << 10, -20, 30 >>}

\* the spans B - A tried: lengths 0, 4, 10, 10 and 20, so that every
\* halving is exact
ConnectorSpans ==
    {<< 0, 0, 0 >>, << 0, 0, 4 >>, << 6, 8, 0 >>, << -6, 0, -8 >>, << 12, 16, 0 >>}

\* a scene-building caller about to draw a connector of any geom type from
\* a to b: the slot START hands out, then mjv_makeConnector on it
InitConnector ==
    \E type \in GeomTypes, width \in {2, 4}, a \in ConnectorPoints,
       dif \in ConnectorSpans, labelled \in BOOLEAN, ngeom \in {0, 1} :
        LET g0 == START(StaleGeom, "unknown", 0, "decor", ngeom, "connector")
            g1 == IF labelled
                  THEN [g0 EXCEPT !.label = makeLabel("user", 1), !.rgba = << 4, 8, 12, 16 >>]
                  ELSE g0
        IN  InitCall([fn |-> "mjv_makeConnector", geom |-> g1, type |-> type,
                      width |-> width, a |-> a, b |-> AddScl3(a, dif, 1)],
                     Scene(2, ngeom, 0), "connector")

\* START ... mjv_makeConnector ... FINISH with a connector-compatible type:
\* the slot holds the connector and the count advances
makeConnector_return ==
    /\ pc = "connector"
    /\ LET r == mjv_makeConnector(args.geom, args.type, args.width, args.a, args.b)
       IN  /\ r.ok
           /\ ret' = r.geom
           /\ scn' = [WriteSlot(scn, scn.ngeom, r.geom) EXCEPT !.ngeom = @ + 1]
    /\ thisgeom' = scn.ngeom
    /\ pc' = "done"
    /\ UNCHANGED << inputs, cam, warning, caller, sites, k, args, hist >>

\* START ... mjv_makeConnector with any other type: mju_error_i, FINISH is
\* never reached
makeConnector_error ==
    /\ pc = "connector"
    /\ ~mjv_makeConnector(args.geom, args.type, args.width, args.a, args.b).ok
    /\ scn' = WriteSlot(scn, scn.ngeom, args.geom)
    /\ thisgeom' = scn.ngeom
    /\ pc' = "fatal"
    /\ UNCHANGED << inputs, cam, warning, caller, sites, k, args, ret, hist >>

NextConnector ==
    \/ makeConnector_return
    \/ makeConnector_error

SpecConnector == InitConnector /\ [][NextConnector]_vars

\* ---------------------------------------------------------------- C8

\* C8: once mjv_makeConnector has been called with a type other than
\* capsule, cylinder, arrow, arrow1, arrow2 or line, a fatal error has been
\* raised and the primitive count is what it was before the call.
C8_BadTypeIsFatal ==
    (args.fn = "mjv_makeConnector" /\ pc # "connector"
     /\ args.type \notin {"capsule", "cylinder", "arrow", "arrow1", "arrow2", "line"})
        => (pc = "fatal" /\ scn.ngeom = hist.ngeom0)

\* C8 witness: the fatal error of a connector asked to be a sphere
C8_SphereConnector ==
    /\ args.fn = "mjv_makeConnector"
    /\ args.type = "sphere"
    /\ pc = "fatal"
    /\ scn.ngeom = hist.ngeom0

\* ---------------------------------------------------------------- C9

\* C9: for a connector-compatible type, width w and endpoints A and B,
\* mjv_makeConnector sets the type and size (w, w, L); for capsule and
\* cylinder 2L = |B-A| and the position is the midpoint of A and B, for the
\* arrows and line L = |B-A| and the position is A; every field other than
\* type, size, position and orientation is left as it was.
C9_ConnectorGeometry ==
    (args.fn = "mjv_makeConnector" /\ pc = "done") =>
        LET dif == AddScl3(args.b, args.a, -1)
            L == ret.size[3]
        IN  /\ ret.type = args.type
            /\ ret.size[1] = args.width /\ ret.size[2] = args.width
            /\ L >= 0
            /\ args.type \in {"capsule", "cylinder"}
               => /\ (2 * L) * (2 * L) = Dot3(dif, dif)
                  /\ AddScl3(ret.pos, ret.pos, 1) = AddScl3(args.a, args.b, 1)
            /\ args.type \in {"arrow", "arrow1", "arrow2", "line"}
               => /\ L * L = Dot3(dif, dif)
                  /\ ret.pos = args.a
            /\ \A f \in DOMAIN ret \ {"type", "size", "pos", "mat"} : ret[f] = args.geom[f]

\* C9 witness: a cylinder between two distinct points
C9_CylinderDrawn ==
    /\ args.fn = "mjv_makeConnector"
    /\ pc = "done"
    /\ args.type = "cylinder"
    /\ args.a # args.b
    /\ ret.size[3] > 0
    /\ ret.pos # args.a

\* ------------------------------------------- direct calls of setMaterial

\* the colours tried as the explicit colour: the default (0.5, 0.5, 0.5, 1)
\* and colours differing from it in one or in several components
MaterialColours ==
    {<< r, g, b, a >> : r \in {10, 16}, g \in {10, 16}, b \in {10, 4}, a \in {20, 10, 0}}

\* a caller of setMaterial on a geom of any category it has just initialised
InitMaterial ==
    \E category \in Categories, matid \in {-1, 0}, rgba \in MaterialColours,
       flags \in SUBSET {"mjVIS_TEXTURE", "mjVIS_TRANSPARENT"} :
        LET g0 == START(StaleGeom, "geom", 1, category, 0, "geom")
            g1 == mjv_initGeom(g0, "sphere", << 10, 0, 0 >>, << 0, 0, 0 >>, Mat(IDENTITY), NULL)
        IN  InitCall([fn |-> "setMaterial", geom |-> g1, matid |-> matid, rgba |-> rgba,
                      flags |-> flags], Scene(2, 0, 0), "material")

\* the call of setMaterial
setMaterial_return ==
    /\ pc = "material"
    /\ ret' = setMaterial(args.geom, args.matid, args.rgba, args.flags)
    /\ pc' = "done"
    /\ UNCHANGED << inputs, cam, scn, warning, caller, sites, k, thisgeom, args, hist >>

SpecMaterial == InitMaterial /\ [][setMaterial_return]_vars

\* --------------------------------------------------------------- C10

\* C10: setMaterial resolves the colour to the material's colour when there
\* is a material and the explicit colour is the default (0.5, 0.5, 0.5, 1),
\* to the explicit colour when there is a material and the explicit colour
\* differs from the default in any component, and to the explicit colour
\* when there is no material; the alpha of the resolved colour is then
\* scaled by the transparency factor on a dynamic geom when
\* mjVIS_TRANSPARENT is set.
C10_ColourResolution ==
    (args.fn = "setMaterial" /\ pc = "done") =>
        LET resolved == IF args.matid >= 0 /\ args.rgba = << 10, 10, 10, 20 >>
                        THEN m.mat_rgba[args.matid]
                        ELSE args.rgba
            alpha == IF "mjVIS_TRANSPARENT" \in args.flags /\ args.geom.category = "dynamic"
                     THEN (resolved[4] * m.vis.map.alpha) \div 20
                     ELSE resolved[4]
        IN  ret.rgba = << resolved[1], resolved[2], resolved[3], alpha >>

\* C10 witness: a material and an explicit colour differing from the
\* default in its alpha only, resolved to the explicit colour
C10_ExplicitAlphaWins ==
    /\ args.fn = "setMaterial"
    /\ pc = "done"
    /\ args.matid >= 0
    /\ args.rgba = << 10, 10, 10, 10 >>
    /\ args.flags = {}
    /\ ret.rgba = args.rgba
    /\ ret.rgba # m.mat_rgba[args.matid]

\* --------------------------------------------------------------- C11

\* the primitives the running or last call appended, in order
CallPrims ==
    [i \in 1..(scn.ngeom - hist.ngeom0) |-> scn.geoms[hist.ngeom0 + i - 1]]

\* the primitives the last call emitted for contact i, in order
ContactPrims(i) ==
    LET OfContact(g) == g.site \in {"contactpoint", "contactframe", "contactforce"}
                        /\ g.objid = i
    IN  SelectSeq(CallPrims, OfContact)

\* a contact drawn with its force: included in the solve, force above the
\* threshold
ForceContact(i) ==
    /\ d.contact[i].efc_address >= 0
    /\ Norm3(contactFrc(d.contact[i])) > 0

\* the call has returned from addContactGeom without a refusal or has come
\* to its end, with the contact-point and contact-force flags on, the label
\* mode contact force and the frame mode not contact
ContactCallDone ==
    /\ pc \in {"makeLights", "done"}
    /\ hist.contact
    /\ ~hist.refused
    /\ {"mjVIS_CONTACTPOINT", "mjVIS_CONTACTFORCE"} \subseteq vopt.flags
    /\ vopt.label = "mjLABEL_CONTACTFORCE"
    /\ vopt.frame # "mjFRAME_CONTACT"

\* g is a force arrow from the contact point
ForceArrow(g, con) ==
    /\ g.type \in {"arrow", "arrow2"}
    /\ g.pos = con.pos
    /\ g.mat.tag = "z2vec"

\* C11: for a contact included in the solve with force above the threshold,
\* with the contact-point and contact-force flags on, label mode contact
\* force and frame mode not contact: when the split flag is on and dim is 3
\* the contact yields exactly the marker cylinder, then the normal arrow
\* (along the contact normal, in the contact-force colour, labelled with the
\* force magnitude), then the friction arrow (orthogonal to the normal, in
\* the friction colour, unlabelled); without the split flag or with dim 1 it
\* yields the marker and exactly one arrow, which carries the label.
C11_ContactPrimitives ==
    ContactCallDone =>
        \A i \in 0..(d.ncon - 1) :
            ForceContact(i) =>
                LET con == d.contact[i]
                    p == ContactPrims(i)
                    n == << con.frame[1], con.frame[2], con.frame[3] >>
                    lab == << "force", Norm3(contactFrc(con)) >>
                IN  /\ (Flag("mjVIS_CONTACTSPLIT") /\ con.dim = 3) =>
                          /\ Len(p) = 3
                          /\ p[1].type = "cylinder" /\ p[1].pos = con.pos /\ p[1].label = << >>
                          /\ ForceArrow(p[2], con)
                          /\ Cross(p[2].mat.v, n) = << 0, 0, 0 >>
                          /\ p[2].rgba = m.vis.rgba.contactforce
                          /\ p[2].label = lab
                          /\ ForceArrow(p[3], con)
                          /\ Dot3(p[3].mat.v, n) = 0
                          /\ p[3].rgba = m.vis.rgba.contactfriction
                          /\ p[3].label = << >>
                    /\ (~Flag("mjVIS_CONTACTSPLIT") \/ con.dim = 1) =>
                          /\ Len(p) = 2
                          /\ p[1].type = "cylinder" /\ p[1].pos = con.pos /\ p[1].label = << >>
                          /\ ForceArrow(p[2], con)
                          /\ p[2].rgba = m.vis.rgba.contactforce
                          /\ p[2].label = lab

\* a call with the split flag has drawn a three-dimensional contact with
\* friction as marker, normal arrow and friction arrow
C11_SplitContactDrawn ==
    /\ ContactCallDone
    /\ pc = "done"
    /\ Flag("mjVIS_CONTACTSPLIT")
    /\ ForceContact(0)
    /\ d.contact[0].dim = 3
    /\ Len(ContactPrims(0)) = 3
    /\ ContactPrims(0)[3].size[3] > 0

\* ------------------- direct calls of mjv_makeLights, mjv_updateCamera
\* ------------------- and mjv_updateSkin

\* BaseModel with n lights, those of `off` inactive, and the headlight on
\* or off; every second light is directional, every third casts a shadow
LightModel(n, off, head) ==
    [BaseModel EXCEPT
        !.vis.headlight.active = head,
        !.nlight = n,
        !.light_active = [i \in 0..(n - 1) |-> i \notin off],
        !.light_directional = [i \in 0..(n - 1) |-> i % 2 = 1],
        !.light_castshadow = [i \in 0..(n - 1) |-> i % 3 = 0],
        !.light_attenuation = [i \in 0..(n - 1) |-> << 20, 2, 0 >>],
        !.light_exponent = [i \in 0..(n - 1) |-> 10],
        !.light_cutoff = [i \in 0..(n - 1) |-> 45],
        !.light_ambient = [i \in 0..(n - 1) |-> << 0, 0, 0 >>],
        !.light_diffuse = [i \in 0..(n - 1) |-> << 14, 14, 14 >>],
        !.light_specular = [i \in 0..(n - 1) |-> << 6, 6, 6 >>]]

\* the state with light i at x = i, pointing down
LightData(n) ==
    [Data(3, 1) EXCEPT
        !.light_xpos = [i \in 0..(n - 1) |-> << i, 0, 200 >>],
        !.light_xdir = [i \in 0..(n - 1) |-> << 0, 0, -1 >>]]

\* a light an earlier frame left in the list
StaleLight(head) ==
    [headlight |-> head, directional |-> TRUE, castshadow |-> TRUE,
     attenuation |-> << 9, 9, 9 >>, exponent |-> 9, cutoff |-> 9,
     ambient |-> << 9, 9, 9 >>, diffuse |-> << 9, 9, 9 >>, specular |-> << 9, 9, 9 >>,
     pos |-> << 9, 9, 9 >>, dir |-> << 9, 9, 9 >>]

\* the light lists an earlier call may have left
StaleLights ==
    {<< >>, << StaleLight(1) >>, << StaleLight(0), StaleLight(1), StaleLight(0) >>}

\* the state before a direct call of function fn of the interface on scene
\* scene, with the given model, state and abstract camera; the arguments
\* record the scene and the camera as the call finds them
InitApiCall(fn, model, data, c, scene, hasModel, hasCam) ==
    /\ m = model
    /\ d = data
    /\ vopt = Options[1].o
    /\ pert = Perturb(-1)
    /\ catmask = Categories
    /\ cam = c
    /\ scn = scene
    /\ warning = 0
    /\ pc = fn
    /\ caller = "api"
    /\ sites = << >>
    /\ k = 0
    /\ thisgeom = -1
    /\ args = [fn |-> fn, scene0 |-> scene, cam0 |-> c, m |-> hasModel, cam |-> hasCam]
    /\ ret = StaleGeom
    /\ hist = NoHist

\* the calls of mjv_makeLights tried: few lights and as many as the list
\* holds, one fewer and one more
InitLights ==
    \E n \in {0, 2, 3, mjMAXLIGHT - 1, mjMAXLIGHT, mjMAXLIGHT + 1},
       off \in {{}, {0}, {1, 2}}, head \in BOOLEAN, stale \in StaleLights :
        InitApiCall("mjv_makeLights", LightModel(n, off, head), LightData(n),
                    Cameras[1].c,
                    [Scene(2, 0, 0) EXCEPT !.nlight = Len(stale), !.lights = stale],
                    TRUE, TRUE)

\* the call of mjv_makeLights
makeLights_return ==
    /\ pc = "mjv_makeLights"
    /\ scn' = mjv_makeLights(scn)
    /\ pc' = "done"
    /\ UNCHANGED << inputs, cam, warning, caller, sites, k, thisgeom, args, ret, hist >>

\* the abstract cameras of the direct calls of mjv_updateCamera: free at
\* every quarter turn, tracking, fixed, user, and the invalid ones
CameraCalls ==
    { [type |-> "mjCAMERA_FREE", fixedcamid |-> -1, trackbodyid |-> -1,
       lookat |-> << 1000, 0, 0 >>, distance |-> 100, azimuth |-> az, elevation |-> el] :
          az \in {0, 90, 180}, el \in {0, -90} }
    \cup
    { [type |-> "mjCAMERA_TRACKING", fixedcamid |-> -1, trackbodyid |-> b,
       lookat |-> << 10, 0, 10 >>, distance |-> 100, azimuth |-> 0, elevation |-> -90] :
          b \in {-1, 1, 2, 3} }
    \cup
    { [type |-> "mjCAMERA_FIXED", fixedcamid |-> c, trackbodyid |-> -1,
       lookat |-> << 0, 0, 0 >>, distance |-> 100, azimuth |-> 0, elevation |-> 0] :
          c \in {-1, 0, 1, 2} }
    \cup
    { [type |-> t, fixedcamid |-> 0, trackbodyid |-> 1,
       lookat |-> << 0, 0, 0 >>, distance |-> 100, azimuth |-> 0, elevation |-> 0] :
          t \in {"mjCAMERA_USER", "mjCAMERA_UNKNOWN"} }

\* the state with model camera 1 turned a quarter turn about z when turned
CameraData(turned) ==
    [Data(3, 1) EXCEPT
        !.cam_xmat[1] = IF turned THEN << 0, -1, 0,  1, 0, 0,  0, 0, 1 >> ELSE IDENTITY]

\* the calls of mjv_updateCamera tried, with and without model and camera
InitCamera ==
    \E c \in CameraCalls, turned \in BOOLEAN, x \in {0, 1000},
       present \in {<< TRUE, TRUE >>, << FALSE, TRUE >>, << TRUE, FALSE >>} :
        InitApiCall("mjv_updateCamera", BaseModel, CameraData(turned), c,
                    Scene(2, 0, x), present[1], present[2])

\* the test of line 1667 without the model: a plausible slip
cameraNothingToDoNoModel(a, c) == ~a.cam \/ c.type = "mjCAMERA_USER"

\* line 1667: nothing to do without a model or a camera, or for a camera
\* the user controls
cameraNothingToDo(a, c) == ~a.m \/ ~a.cam \/ c.type = "mjCAMERA_USER"

\* the call of mjv_updateCamera that returns
updateCamera_return ==
    /\ pc = "mjv_updateCamera"
    /\ cameraNothingToDo(args, cam) \/ ~cameraError(cam)
    /\ scn' = IF cameraNothingToDo(args, cam) THEN scn ELSE mjv_updateCamera(cam, scn)
    /\ cam' = IF cameraNothingToDo(args, cam) THEN cam
              ELSE [cam EXCEPT !.lookat = trackLookat(cam)]
    /\ pc' = "done"
    /\ UNCHANGED << inputs, warning, caller, sites, k, thisgeom, args, ret, hist >>

\* the call of mjv_updateCamera that raises mju_error: the scene cameras
\* are not reached
updateCamera_error ==
    /\ pc = "mjv_updateCamera"
    /\ ~cameraNothingToDo(args, cam)
    /\ cameraError(cam)
    /\ pc' = "fatal"
    /\ UNCHANGED << inputs, cam, scn, warning, caller, sites, k, thisgeom, args, ret, hist >>

\* BaseModel with the skin inflated by inflate and its bone bound with
\* orientation bindquat
SkinModel(inflate, bindquat) ==
    [BaseModel EXCEPT !.skin_inflate = Arr(<< inflate >>),
                      !.skin_bonebindquat = Arr(<< bindquat >>)]

\* the state with body 1, which carries the bone, at pos with orientation quat
SkinData(pos, quat) ==
    [Data(3, 1) EXCEPT !.xpos[1] = pos, !.xquat[1] = quat]

\* skin buffers as an earlier frame left them; entry 3 belongs to no skin
SkinBuffers ==
    { [v \in 0..3 |-> << 7, 7, 7 >>], [v \in 0..3 |-> << 0, 0, 0 >>],
      [v \in 0..3 |-> << v, -5, 30 >>] }

\* the unit quaternions tried: none, and half turns about z and x
SkinQuats == {<< 1, 0, 0, 0 >>, << 0, 0, 0, 1 >>, << 0, 1, 0, 0 >>}

\* the calls of mjv_updateSkin tried
InitSkin ==
    \E inflate \in {0, 2}, bindquat \in SkinQuats, quat \in SkinQuats,
       pos \in {<< 20, 0, 0 >>, << 40, 0, 0 >>}, vert \in SkinBuffers,
       normal \in SkinBuffers :
        InitApiCall("mjv_updateSkin", SkinModel(inflate, bindquat), SkinData(pos, quat),
                    Cameras[1].c,
                    [Scene(2, 0, 0) EXCEPT !.skinvert = vert, !.skinnormal = normal],
                    TRUE, TRUE)

\* the call of mjv_updateSkin
updateSkin_return ==
    /\ pc = "mjv_updateSkin"
    /\ scn' = mjv_updateSkin(scn)
    /\ pc' = "done"
    /\ UNCHANGED << inputs, cam, warning, caller, sites, k, thisgeom, args, ret, hist >>

InitApi ==
    \/ InitLights
    \/ InitCamera
    \/ InitSkin

NextApi ==
    \/ makeLights_return
    \/ updateCamera_return
    \/ updateCamera_error
    \/ updateSkin_return

SpecApi == InitApi /\ [][NextApi]_vars

\* --------------------------------------------------------------- C12

\* the indices of the model's active lights, in increasing order
ActiveLights ==
    LET IsActive(i) == m.light_active[i]
    IN  SelectSeq([i \in 1..m.nlight |-> i - 1], IsActive)

\* C12: after mjv_makeLights the scene holds at most mjMAXLIGHT lights; with
\* the headlight active slot 0 is the headlight, directional, casting no
\* shadow and coloured from the visual configuration, and no other slot is
\* a headlight; the slots after it hold the model's active lights in
\* increasing index order, as many as fit, each built from the model and
\* the state alone, whatever list an earlier call left.
C12_LightList ==
    (pc = "done" /\ args.fn = "mjv_makeLights") =>
        LET off == IF m.vis.headlight.active THEN 1 ELSE 0
        IN  /\ scn.nlight <= mjMAXLIGHT
            /\ scn.nlight = Len(scn.lights)
            /\ scn.nlight = Min(mjMAXLIGHT, off + Len(ActiveLights))
            /\ m.vis.headlight.active =>
                  /\ scn.lights[1].headlight = 1
                  /\ scn.lights[1].directional
                  /\ ~scn.lights[1].castshadow
                  /\ scn.lights[1].ambient = m.vis.headlight.ambient
                  /\ scn.lights[1].diffuse = m.vis.headlight.diffuse
                  /\ scn.lights[1].specular = m.vis.headlight.specular
                  /\ scn.lights[1].pos = << 0, 0, 0 >>
            /\ \A j \in 1..(scn.nlight - off) :
                  LET l == scn.lights[off + j]
                      i == ActiveLights[j]
                  IN  /\ l.headlight = 0
                      /\ l.directional = m.light_directional[i]
                      /\ l.castshadow = m.light_castshadow[i]
                      /\ l.attenuation = IF m.light_directional[i] THEN << 0, 0, 0 >>
                                         ELSE m.light_attenuation[i]
                      /\ l.exponent = IF m.light_directional[i] THEN 0
                                      ELSE m.light_exponent[i]
                      /\ l.cutoff = IF m.light_directional[i] THEN 0 ELSE m.light_cutoff[i]
                      /\ l.ambient = m.light_ambient[i]
                      /\ l.diffuse = m.light_diffuse[i]
                      /\ l.specular = m.light_specular[i]
                      /\ l.pos = d.light_xpos[i]
                      /\ l.dir = d.light_xdir[i]

\* mjv_makeLights has truncated the list: headlight and more active lights
\* than fit, over a list an earlier call left with a headlight in slot 1
C12_TruncatedAtCapacity ==
    /\ pc = "done"
    /\ args.fn = "mjv_makeLights"
    /\ m.vis.headlight.active
    /\ Len(ActiveLights) >= mjMAXLIGHT
    /\ args.scene0.nlight = 3
    /\ scn.nlight = mjMAXLIGHT
    /\ scn.lights[mjMAXLIGHT].pos = d.light_xpos[ActiveLights[mjMAXLIGHT - 1]]

\* --------------------------------------------------------------- C13

\* C13: a call of mjv_updateCamera with a camera of type user, or without
\* a model or without a camera, returns and leaves both scene cameras, the
\* enabletransform flag of the scene, the rest of the scene and the camera
\* struct as they were.
C13_UserCameraUntouched ==
    (/\ pc \in {"done", "fatal"}
     /\ args.fn = "mjv_updateCamera"
     /\ (~args.m \/ ~args.cam \/ args.cam0.type = "mjCAMERA_USER"))
        => /\ pc = "done"
           /\ scn.camera = args.scene0.camera
           /\ scn.enabletransform = args.scene0.enabletransform
           /\ scn = args.scene0
           /\ cam = args.cam0

\* mjv_updateCamera has returned for a user camera, model and camera given,
\* on a scene whose cameras an earlier frame left far from the origin
C13_UserCameraCall ==
    /\ pc = "done"
    /\ args.fn = "mjv_updateCamera"
    /\ args.m /\ args.cam
    /\ cam.type = "mjCAMERA_USER"
    /\ scn.camera[0].pos[1] > 900
    /\ scn.enabletransform = 1

\* --------------------------------------------------------------- C14

\* C14: a call of mjv_updateCamera, model and camera given, with a tracking
\* camera whose trackbodyid is outside [0, nbody), a fixed camera whose
\* fixedcamid is outside [0, ncam), or a camera type that is none of free,
\* tracking, fixed and user, raises a fatal error and has written neither
\* scene camera, nor anything else of the scene or of the camera struct.
C14_InvalidCameraIsFatal ==
    (/\ pc \in {"done", "fatal"}
     /\ args.fn = "mjv_updateCamera"
     /\ args.m /\ args.cam
     /\ LET c == args.cam0
        IN  \/ c.type = "mjCAMERA_TRACKING"
               /\ (c.trackbodyid < 0 \/ c.trackbodyid >= m.nbody)
            \/ c.type = "mjCAMERA_FIXED"
               /\ (c.fixedcamid < 0 \/ c.fixedcamid >= m.ncam)
            \/ c.type \notin {"mjCAMERA_FREE", "mjCAMERA_TRACKING", "mjCAMERA_FIXED",
                              "mjCAMERA_USER"})
        => /\ pc = "fatal"
           /\ scn.camera = args.scene0.camera
           /\ scn = args.scene0
           /\ cam = args.cam0

\* mjv_updateCamera has raised the error for a fixed camera whose id is the
\* number of model cameras
C14_FixedIdAtLimit ==
    /\ pc = "fatal"
    /\ args.fn = "mjv_updateCamera"
    /\ args.m /\ args.cam
    /\ cam.type = "mjCAMERA_FIXED"
    /\ cam.fixedcamid = m.ncam

\* --------------------------------------------------------------- C15

\* C15: after mjv_updateCamera for a free or a fixed camera the two eyes
\* sit at head - (ipd/2)*right and head + (ipd/2)*right, head being the
\* position of the fixed model camera or lookat - distance*forward and right
\* being forward x up: their midpoint is the head and they differ by
\* ipd*right; both views have the same forward, up, near and far,
\* frustum_center 0 and frustum_bottom = -frustum_top.
C15_StereoSymmetry ==
    (/\ pc = "done"
     /\ args.fn = "mjv_updateCamera"
     /\ args.m /\ args.cam
     /\ args.cam0.type \in {"mjCAMERA_FREE", "mjCAMERA_FIXED"})
        => LET c == args.cam0
               fixed == c.type = "mjCAMERA_FIXED"
               left == scn.camera[0]
               rght == scn.camera[1]
               head == IF fixed THEN d.cam_xpos[c.fixedcamid]
                       ELSE AddScl3(c.lookat, left.forward, -c.distance)
               ipd == IF fixed THEN m.cam_ipd[c.fixedcamid] ELSE m.vis.global.ipd
               right == Cross(left.forward, left.up)
           IN  /\ AddScl3(left.pos, rght.pos, 1) = AddScl3(head, head, 1)
               /\ AddScl3(rght.pos, left.pos, -1) = AddScl3(<< 0, 0, 0 >>, right, ipd)
               /\ AddScl3(left.pos, right, ipd) = rght.pos
               /\ Dot3(right, right) = 1
               /\ left.forward = rght.forward
               /\ left.up = rght.up
               /\ left.frustum_near = rght.frustum_near
               /\ left.frustum_far = rght.frustum_far
               /\ left.frustum_center = 0 /\ rght.frustum_center = 0
               /\ left.frustum_top = rght.frustum_top
               /\ left.frustum_bottom = -left.frustum_top
               /\ rght.frustum_bottom = -rght.frustum_top

\* mjv_updateCamera has placed the eyes of a fixed camera whose model camera
\* is turned, on a scene whose cameras were elsewhere
C15_TurnedFixedCamera ==
    /\ pc = "done"
    /\ args.fn = "mjv_updateCamera"
    /\ args.m /\ args.cam
    /\ cam.type = "mjCAMERA_FIXED"
    /\ d.cam_xmat[cam.fixedcamid] # IDENTITY
    /\ scn.camera # args.scene0.camera
    /\ scn.camera[0].pos # scn.camera[1].pos
    /\ scn.camera[0].frustum_top > 0

\* --------------------------------------------------------------- C16

\* the entries of the skin buffers that belong to some skin of the model
SkinRange ==
    UNION { m.skin_vertadr[i]..(m.skin_vertadr[i] + m.skin_vertnum[i] - 1) :
               i \in 0..(m.nskin - 1) }

\* the scene a second run of mjv_updateSkin yields for the same model and
\* state on buffers that held zeros
SkinOnClearedBuffers ==
    mjv_updateSkin([args.scene0 EXCEPT
                       !.skinvert = [v \in DOMAIN @ |-> << 0, 0, 0 >>],
                       !.skinnormal = [v \in DOMAIN @ |-> << 0, 0, 0 >>]])

\* C16: after mjv_updateSkin every vertex position and every normal in the
\* sub-range of a skin is what a run with the same model and state yields
\* on buffers with other contents: nothing of what the buffers held before
\* the call is left in them.
C16_SkinBuffersOverwritten ==
    (pc = "done" /\ args.fn = "mjv_updateSkin") =>
        \A v \in SkinRange :
            /\ scn.skinvert[v] = SkinOnClearedBuffers.skinvert[v]
            /\ scn.skinnormal[v] = SkinOnClearedBuffers.skinnormal[v]

\* mjv_updateSkin has run on buffers that held an earlier frame's data, with
\* the bone away from its bind pose
C16_StaleBuffersRewritten ==
    /\ pc = "done"
    /\ args.fn = "mjv_updateSkin"
    /\ \A v \in SkinRange : args.scene0.skinvert[v] = << 7, 7, 7 >>
    /\ \A v \in SkinRange : args.scene0.skinnormal[v] = << v, -5, 30 >>
    /\ d.xquat[1] # m.skin_bonebindquat[0]
    /\ \E v \in SkinRange : scn.skinvert[v] # << 7, 7, 7 >>
    /\ \E v \in SkinRange : scn.skinnormal[v] \notin {<< 0, 0, 0 >>, << v, -5, 30 >>}

\* --------------------------------------------------------------- C17

\* every bone's body is in the pose the bone was bound in
BindPose ==
    \A i \in 0..(m.nskin - 1) :
        \A j \in m.skin_boneadr[i]..(m.skin_boneadr[i] + m.skin_bonenum[i] - 1) :
            /\ d.xpos[m.skin_bonebodyid[j]] = m.skin_bonebindpos[j]
            /\ d.xquat[m.skin_bonebodyid[j]] = m.skin_bonebindquat[j]

\* C17 as claimed: with every bone in its bind pose, after mjv_updateSkin
\* every skinned vertex is at its rest position of the model.
C17_BindPoseGivesRest ==
    (pc = "done" /\ args.fn = "mjv_updateSkin" /\ BindPose) =>
        \A v \in SkinRange : scn.skinvert[v] = m.skin_vert[v]

\* C17 amended: with every bone in its bind pose, after mjv_updateSkin
\* every skinned vertex is at its rest position moved along its unit vertex
\* normal by the inflation of its skin, so at its rest position exactly when
\* skin_inflate is 0 or the normal vanishes.
C17_BindPoseGivesInflatedRest ==
    (pc = "done" /\ args.fn = "mjv_updateSkin" /\ BindPose) =>
        \A i \in 0..(m.nskin - 1) :
            \A v \in m.skin_vertadr[i]..(m.skin_vertadr[i] + m.skin_vertnum[i] - 1) :
                /\ scn.skinvert[v]
                      = AddScl3(m.skin_vert[v], scn.skinnormal[v], m.skin_inflate[i])
                /\ m.skin_inflate[i] = 0 => scn.skinvert[v] = m.skin_vert[v]

\* mjv_updateSkin has run on an inflated skin whose bone, bound half a turn
\* about z away from the origin, is in its bind pose
C17_InflatedBindPose ==
    /\ pc = "done"
    /\ args.fn = "mjv_updateSkin"
    /\ BindPose
    /\ m.skin_bonebindquat[0] = << 0, 0, 0, 1 >>
    /\ m.skin_bonebindpos[0] # << 0, 0, 0 >>
    /\ m.skin_inflate[0] # 0
    /\ \E v \in SkinRange : scn.skinvert[v] # m.skin_vert[v]

\* --------------------------------------------------------------- C18

\* the limits of actuator i that the colour is blended over: its control
\* range when the control is limited, else its activation range when
\* activations are shown and the activation is limited, -1..1 otherwise
ColourLimits(i) ==
    IF m.actuator_ctrllimited[i] THEN m.actuator_ctrlrange[i]
    ELSE IF Flag("mjVIS_ACTIVATION") /\ m.actuator_actlimited[i] THEN m.actuator_actrange[i]
    ELSE << -1, 1 >>

\* the value of actuator i that is shown: its activation when activations
\* are shown and it has one, its control otherwise
ColourValue(i) ==
    IF Flag("mjVIS_ACTIVATION") /\ m.actuator_dyntype[i] # 0
    THEN d.act[i - (m.nu - m.na)]
    ELSE d.ctrl[i]

\* the three reference values of actuator i: the negative limit, the neutral
\* value and the positive limit.  A range that straddles zero has zero as
\* its neutral value; a range on one side of zero has its limit nearest zero
\* as its neutral value and -1 or +1 as its limit on the other side
ColourKnots(i) ==
    LET r == ColourLimits(i)
    IN  CASE r[1] >= 0 -> << -1, r[1], r[2] >>
          [] r[2] <= 0 -> << r[1], r[2], 1 >>
          [] OTHER -> << r[1], 0, r[2] >>

\* C18: the colour of every actuator icon is a three-way piecewise-linear
\* blend of the value shown over the three reference values of its actuator:
\* the neutral colour at the neutral value, the negative-limit colour at or
\* below the negative limit, the positive-limit colour at or above the
\* positive limit, and in between the linear interpolation of the two
\* adjacent reference colours, for a range that straddles zero and for a
\* range on one side of zero alike.
C18_ActuatorColourBlend ==
    \A s \in Emitted :
        LET g == scn.geoms[s]
        IN  g.site \in {"actuator_joint", "actuator_site", "actuator_tendon"} =>
            LET kn == ColourKnots(g.objid)
                u == ColourValue(g.objid)
                neg == m.vis.rgba.actuatornegative
                mid == m.vis.rgba.actuator
                pos == m.vis.rgba.actuatorpositive
            IN  /\ u = kn[2] => g.rgba = mid
                /\ u <= kn[1] => g.rgba = neg
                /\ u >= kn[3] => g.rgba = pos
                /\ (kn[1] < u /\ u < kn[2]) =>
                      \A c \in 1..4 :
                          (kn[2] - kn[1]) * g.rgba[c]
                             = (kn[2] - u) * neg[c] + (u - kn[1]) * mid[c]
                /\ (kn[2] < u /\ u < kn[3]) =>
                      \A c \in 1..4 :
                          (kn[3] - kn[2]) * g.rgba[c]
                             = (u - kn[2]) * pos[c] + (kn[3] - u) * mid[c]

\* the icon of an actuator whose control range is on the positive side has
\* been drawn half way between the neutral and the positive-limit colour
C18_OneSidedRangeBlended ==
    /\ pc = "done"
    /\ ColourLimits(0) = << 1, 3 >>
    /\ ColourValue(0) = 2
    /\ \E s \in Emitted :
          /\ scn.geoms[s].site = "actuator_joint"
          /\ scn.geoms[s].objid = 0
          /\ scn.geoms[s].rgba \notin {m.vis.rgba.actuator, m.vis.rgba.actuatorpositive}

\* --------------------------------------------------------------- C19

\* |x|
Abs(x) == IF x < 0 THEN -x ELSE x

\* the plane primitives the running call has emitted
PlanePrims ==
    {s \in hist.ngeom0..(scn.ngeom - 1) :
        scn.geoms[s].site = "geom" /\ scn.geoms[s].type = "plane"}

\* mjv_addGeoms is running or has just returned to mjv_updateScene: the
\* scene cameras are those the emitted planes were centred on
CamerasAsEmitted == pc \in {"addGeoms", "addContactGeom", "makeLights"}

\* axis c (1: x, 2: y) of the frame of plane geom i
PlaneAxis(i, c) ==
    << d.geom_xmat[i][c], d.geom_xmat[i][c + 3], d.geom_xmat[i][c + 6] >>

\* the grid spacing 2*sX of plane geom i along axis c, in hundredths
PlaneSpacing(i, c) ==
    IF m.geom_matid[i] >= 0 /\ m.mat_texrepeat[m.geom_matid[i]][c] > 0
    THEN 2 * (200 \div m.mat_texrepeat[m.geom_matid[i]][c])
    ELSE 2 * planeIncrement(i, c)

\* the offset of the midpoint of the scene cameras from plane geom i along
\* axis c
CameraOffset(i, c) ==
    LET mid == [r \in 1..3 |-> (scn.camera[0].pos[r] + scn.camera[1].pos[r]) \div 2]
    IN  Dot3(AddScl3(mid, d.geom_xpos[i], -1), PlaneAxis(i, c))

\* the scene cameras moved by delta along axis c of plane geom i
MovedCameras(i, c, delta) ==
    [v \in 0..1 |-> [scn.camera[v] EXCEPT !.pos = AddScl3(@, PlaneAxis(i, c), delta)]]

\* the camera movements tried for a grid of the given spacing: a quarter
\* and three quarters of it, either way
SubGridMoves(spacing) == {(q * spacing) \div 4 : q \in {-3, -1, 1, 3}}

\* the emitted position of a plane is on the grid line nearest the camera
\* along an axis without extent, and at the geom along an axis with one
PlaneOnNearestGridLine ==
    \A s \in PlanePrims :
        LET g == scn.geoms[s]
            i == g.objid
        IN  /\ \A c \in 1..2 :
                  LET off == Dot3(AddScl3(g.pos, d.geom_xpos[i], -1), PlaneAxis(i, c))
                  IN  IF m.geom_size[i][c] <= 0
                      THEN /\ off % PlaneSpacing(i, c) = 0
                           /\ 2 * Abs(CameraOffset(i, c) - off) <= PlaneSpacing(i, c)
                      ELSE off = 0
            /\ (m.geom_size[i][1] > 0 /\ m.geom_size[i][2] > 0) => g.pos = d.geom_xpos[i]

\* C19 as claimed: the emitted plane is on the nearest grid line, and a
\* camera movement smaller than the grid spacing never changes the emitted
\* plane position.
C19_PlaneSnapsWithoutJitter ==
    CamerasAsEmitted =>
        /\ PlaneOnNearestGridLine
        /\ \A s \in PlanePrims :
              \A c \in 1..2 :
                  LET i == scn.geoms[s].objid
                  IN  m.geom_size[i][c] <= 0 =>
                         \A delta \in SubGridMoves(PlaneSpacing(i, c)) :
                             planePos(i, MovedCameras(i, c, delta)) = scn.geoms[s].pos

\* C19 amended: along an axis with non-positive half-extent the emitted
\* position differs from the geom's world position by the integer multiple
\* of the grid spacing 2*sX nearest to the offset of the camera midpoint;
\* a camera movement smaller than the grid spacing moves the emitted
\* position by one whole grid spacing or not at all, and not at all while
\* the camera stays within half a spacing of the emitted position; a plane
\* with both half-extents positive is emitted at its world position.
C19_PlaneSnapsByGridSteps ==
    CamerasAsEmitted =>
        /\ PlaneOnNearestGridLine
        /\ \A s \in PlanePrims :
              \A c \in 1..2 :
                  LET g == scn.geoms[s]
                      i == g.objid
                      off == Dot3(AddScl3(g.pos, d.geom_xpos[i], -1), PlaneAxis(i, c))
                  IN  m.geom_size[i][c] <= 0 =>
                         \A delta \in SubGridMoves(PlaneSpacing(i, c)) :
                             LET p == planePos(i, MovedCameras(i, c, delta))
                                 step == Dot3(AddScl3(p, g.pos, -1), PlaneAxis(i, c))
                             IN  /\ p = AddScl3(g.pos, PlaneAxis(i, c), step)
                                 /\ Abs(step) \in {0, PlaneSpacing(i, c)}
                                 /\ 2 * Abs(CameraOffset(i, c) + delta - off)
                                       < PlaneSpacing(i, c) => step = 0

\* a plane without extent along x has been emitted away from its geom, on
\* the grid line nearest a camera that is off the grid
C19_PlaneRecentred ==
    /\ CamerasAsEmitted
    /\ \E s \in PlanePrims :
          LET i == scn.geoms[s].objid
          IN  /\ m.geom_size[i][1] <= 0
              /\ scn.geoms[s].pos # d.geom_xpos[i]
              /\ CameraOffset(i, 1) % PlaneSpacing(i, 1) # 0

\* --------------------------------------------------------------- C20

\* the gate the code tests before it emits primitive g: the option flag,
\* the visibility group or the frame or label mode of its visual category.
\* The slider-crank section tests none (line 1356 tests the category mask
\* alone), so no gate of a slider or crank primitive is ever enabled
GateEnabled(g) ==
    CASE g.site = "skin" -> Flag("mjVIS_SKIN")
      [] g.site = "inertia" -> Flag("mjVIS_INERTIA")
      [] g.site \in {"pert_connector", "pert_sphere", "pert_box"} -> Flag("mjVIS_PERTOBJ")
      [] g.site = "worldframe" -> vopt.frame = "mjFRAME_WORLD"
      [] g.site = "bodyframe" -> vopt.frame = "mjFRAME_BODY"
      [] g.site = "selectpoint" -> Flag("mjVIS_SELECT")
      [] g.site = "bodylabel" -> vopt.label \in {"mjLABEL_SELECTION", "mjLABEL_BODY"}
      [] g.site = "joint" ->
            Flag("mjVIS_JOINT") /\ vopt.jointgroup[ClampGroup(m.jnt_group[g.objid])]
      [] g.site \in {"actuator_joint", "actuator_site", "actuator_tendon"} ->
            /\ Flag("mjVIS_ACTUATOR")
            /\ vopt.actuatorgroup[ClampGroup(m.actuator_group[g.objid])]
      [] g.site = "geom" -> vopt.geomgroup[ClampGroup(m.geom_group[g.objid])]
      [] g.site = "geomframe" -> vopt.frame = "mjFRAME_GEOM"
      [] g.site = "site" -> vopt.sitegroup[ClampGroup(m.site_group[g.objid])]
      [] g.site = "siteframe" -> vopt.frame = "mjFRAME_SITE"
      [] g.site \in {"camera_body", "camera_lens"} -> Flag("mjVIS_CAMERA")
      [] g.site = "cameraframe" -> vopt.frame = "mjFRAME_CAMERA"
      [] g.site = "light" -> Flag("mjVIS_LIGHT")
      [] g.site = "lightframe" -> vopt.frame = "mjFRAME_LIGHT"
      [] g.site = "tendon" ->
            Flag("mjVIS_TENDON") /\ vopt.tendongroup[ClampGroup(m.tendon_group[g.objid])]
      [] g.site \in {"slider", "crank"} -> FALSE
      [] g.site = "com" -> Flag("mjVIS_COM")
      [] g.site \in {"connect_joint", "connect_parent"} -> Flag("mjVIS_AUTOCONNECT")
      [] g.site = "rangefinder" -> Flag("mjVIS_RANGEFINDER")
      [] g.site = "pertforce" -> Flag("mjVIS_PERTFORCE")
      [] g.site \in {"eq_connect", "eq_distance"} -> Flag("mjVIS_CONSTRAINT")
      [] g.site = "contactpoint" -> Flag("mjVIS_CONTACTPOINT")
      [] g.site = "contactframe" -> vopt.frame = "mjFRAME_CONTACT"
      [] g.site = "contactforce" -> Flag("mjVIS_CONTACTFORCE")

\* every option flag but mjVIS_STATIC (which gates no category of its own)
\* is off, the geom and site groups are disabled, and the frame and label
\* modes are none
EverythingOff ==
    /\ vopt.flags \subseteq {"mjVIS_STATIC"}
    /\ \A gr \in 0..(mjNGROUP - 1) : ~vopt.geomgroup[gr] /\ ~vopt.sitegroup[gr]
    /\ vopt.frame = "mjFRAME_NONE"
    /\ vopt.label = "mjLABEL_NONE"

\* mjv_addGeoms has been called: CallPrims are the primitives it has emitted
CallUnderWay == pc \in {"addGeoms", "addContactGeom", "makeLights", "done"}

\* C20: every primitive emitted by mjv_addGeoms belongs to a visual category
\* whose own gate (option flag, visibility group, or frame or label mode) is
\* enabled; with every flag off, every group disabled, frame mode none and
\* label mode none the call emits no primitive.
C20_EveryPrimitiveGated ==
    CallUnderWay =>
    /\ \A n \in DOMAIN CallPrims : GateEnabled(CallPrims[n])
    /\ EverythingOff => CallPrims = << >>

\* the gated categories alone: every primitive but those of a slider-crank
\* has its gate enabled
C20_GatedButSliderCrank ==
    CallUnderWay =>
    \A n \in DOMAIN CallPrims :
        CallPrims[n].site \notin {"slider", "crank"} => GateEnabled(CallPrims[n])

\* with everything off the call has emitted the slider and the crank
C20_UngatedSliderCrank ==
    /\ CallUnderWay
    /\ EverythingOff
    /\ {CallPrims[n].site : n \in DOMAIN CallPrims} = {"slider", "crank"}

\* --------------------------------------------------------------- C21

\* the steps mjv_updateScene may take from one position to the next, in the
\* order of lines 1897-1909
UpdateSceneSteps ==
    {<< "idle", "addGeoms" >>, << "done", "addGeoms" >>,
     << "addGeoms", "addGeoms" >>, << "addGeoms", "addContactGeom" >>,
     << "addContactGeom", "addContactGeom" >>,
     << "addGeoms", "makeLights" >>, << "addContactGeom", "makeLights" >>,
     << "addGeoms", "fatal" >>,
     << "makeLights", "updateCamera" >>,
     << "updateCamera", "updateSkin" >>, << "updateCamera", "fatal" >>,
     << "updateSkin", "done" >>}

\* the skin buffers of a scene
SkinBuffersOf(scene) == << scene.skinvert, scene.skinnormal >>

\* C21: within one mjv_updateScene call the steps happen in this order: the
\* primitive count is reset to 0, all primitives are assembled, the light
\* list is rebuilt, the stereo cameras are computed, and the skin buffers
\* are recomputed last and only when the skin flag is on; with the flag off
\* the skin buffers are left unchanged.
C21_UpdateSceneOrder ==
    [][caller' = "updateScene" =>
        /\ << pc, pc' >> \in UpdateSceneSteps
        /\ (pc \in {"idle", "done"}) => scn'.ngeom = 0
        /\ (scn'.ngeom # scn.ngeom \/ scn'.geoms # scn.geoms)
              => pc \in {"idle", "done", "addGeoms", "addContactGeom"}
        /\ (pc = "makeLights")
              => << scn'.nlight, scn'.lights >>
                    = << mjv_makeLights(scn).nlight, mjv_makeLights(scn).lights >>
        /\ (scn'.nlight # scn.nlight \/ scn'.lights # scn.lights) => pc = "makeLights"
        /\ (pc = "updateCamera" /\ pc' = "updateSkin")
              => scn'.camera = mjv_updateCamera(cam, scn).camera
        /\ (scn'.camera # scn.camera) => pc = "updateCamera"
        /\ (pc = "updateSkin")
              => SkinBuffersOf(scn') = IF Flag("mjVIS_SKIN")
                                       THEN SkinBuffersOf(mjv_updateSkin(scn))
                                       ELSE SkinBuffersOf(scn)
        /\ (SkinBuffersOf(scn') # SkinBuffersOf(scn))
              => (pc = "updateSkin" /\ Flag("mjVIS_SKIN"))]_vars

\* mjv_updateScene has returned with the skin flag on: primitives, lights
\* and recomputed skin buffers are in the scene
C21_SceneRebuiltWithSkin ==
    /\ caller = "updateScene"
    /\ pc = "done"
    /\ Flag("mjVIS_SKIN")
    /\ scn.ngeom > 0
    /\ scn.nlight > 0
    /\ scn.enabletransform = 0
    /\ SkinBuffersOf(scn) # SkinBuffersOf(Scene(scn.maxgeom, 0, 0))

\* --------------------------------------------------------------- C22

\* the alpha setMaterial resolves from the material and the explicit
\* colour of the call, before any transparency
ResolvedAlpha ==
    IF args.matid >= 0 /\ args.rgba = << 10, 10, 10, 20 >>
    THEN m.mat_rgba[args.matid][4]
    ELSE args.rgba[4]

\* C22: setMaterial multiplies the alpha of the primitive by the global
\* transparency factor exactly once when mjVIS_TRANSPARENT is set and the
\* category of the primitive is dynamic, and leaves the alpha as resolved
\* from the material or the explicit colour when the flag is off or the
\* category is static or decorative; nothing but the alpha depends on the
\* flag.
C22_AlphaScaledOnce ==
    (args.fn = "setMaterial" /\ pc = "done") =>
        /\ ret.rgba[4] =
              IF "mjVIS_TRANSPARENT" \in args.flags /\ args.geom.category = "dynamic"
              THEN (ResolvedAlpha * m.vis.map.alpha) \div 20
              ELSE ResolvedAlpha
        /\ [ret EXCEPT !.rgba[4] = 0]
              = [setMaterial(args.geom, args.matid, args.rgba,
                             args.flags \ {"mjVIS_TRANSPARENT"}) EXCEPT !.rgba[4] = 0]

\* an opaque dynamic primitive made half transparent by the flag, with a
\* factor whose square differs from it
C22_DynamicScaled ==
    /\ args.fn = "setMaterial"
    /\ pc = "done"
    /\ "mjVIS_TRANSPARENT" \in args.flags
    /\ args.geom.category = "dynamic"
    /\ ResolvedAlpha = 20
    /\ ret.rgba[4] = m.vis.map.alpha
    /\ (m.vis.map.alpha * m.vis.map.alpha) \div 20 # m.vis.map.alpha

\* --------------------------------------------------------------- C23

\* the slider-crank actuators of the model
SliderCranks == {i \in 0..(m.nu - 1) : m.actuator_trntype[i] = "mjTRN_SLIDERCRANK"}

\* the vector from the slider site to the crank site of actuator i, its
\* component len along the slider axis, and the discriminant
\* len^2 + rod^2 - |vec|^2
CrankVec(i) ==
    AddScl3(d.site_xpos[m.actuator_trnid[i][1]], d.site_xpos[m.actuator_trnid[i][2]], -1)

SliderAxis(i) ==
    LET x == d.site_xmat[m.actuator_trnid[i][2]] IN << x[3], x[6], x[9] >>

Discriminant(i) ==
    LET len == Dot3(CrankVec(i), SliderAxis(i))
    IN  len * len + m.actuator_cranklength[i] * m.actuator_cranklength[i]
        - Dot3(CrankVec(i), CrankVec(i))

\* the end of the slider of actuator i, the discriminant clamped to 0 when
\* it is negative
SliderEnd(i) ==
    LET len == Dot3(CrankVec(i), SliderAxis(i))
        det == IF Discriminant(i) < 0 THEN 0 ELSE Discriminant(i)
    IN  AddScl3(d.site_xpos[m.actuator_trnid[i][2]], SliderAxis(i), len - Sqrt(det))

\* C23: for every slider-crank actuator visited with the dynamic category
\* enabled mjv_addGeoms never fails; when the discriminant is negative it is
\* clamped to 0 and the rod capsule takes the broken colour, otherwise the
\* rod takes the slider-crank colour; in both cases exactly two primitives,
\* the slider cylinder and then the rod capsule, are emitted if capacity
\* allows.
C23_SliderCrankNeverFails ==
    CallUnderWay =>
        /\ \A n \in DOMAIN CallPrims :
              LET g == CallPrims[n]
                  i == g.objid
              IN  /\ g.site = "slider" =>
                        /\ g.type = "cylinder"
                        /\ g.rgba = m.vis.rgba.slidercrank
                        /\ g.pos = [c \in 1..3 |->
                                      (d.site_xpos[m.actuator_trnid[i][2]][c]
                                         + SliderEnd(i)[c]) \div 2]
                        /\ n < Len(CallPrims) => CallPrims[n + 1].site = "crank"
                                                 /\ CallPrims[n + 1].objid = i
                        /\ n = Len(CallPrims) => (AtSite \/ hist.refused)
                  /\ g.site = "crank" =>
                        /\ g.type = "capsule"
                        /\ g.rgba = IF Discriminant(i) < 0 THEN m.vis.rgba.crankbroken
                                    ELSE m.vis.rgba.slidercrank
                        /\ n > 1 /\ CallPrims[n - 1].site = "slider"
                        /\ CallPrims[n - 1].objid = i
        /\ (pc \in {"makeLights", "done"} /\ ~hist.refused /\ "dynamic" \in catmask) =>
              \A i \in SliderCranks :
                  Cardinality({n \in DOMAIN CallPrims :
                                  CallPrims[n].objid = i
                                  /\ CallPrims[n].site \in {"slider", "crank"}}) = 2
        /\ (pc = "fatal" /\ ~hist.refused /\ k < Len(sites))
              => sites[k + 1].site \notin {"slider", "crank"}

\* a slider-crank whose rod cannot reach the crank pin has been drawn, the
\* rod in the broken colour
C23_BrokenCrankDrawn ==
    /\ CallUnderWay
    /\ \E n \in DOMAIN CallPrims :
          /\ CallPrims[n].site = "crank"
          /\ Discriminant(CallPrims[n].objid) < 0
          /\ CallPrims[n].rgba = m.vis.rgba.crankbroken
          /\ CallPrims[n].rgba # m.vis.rgba.slidercrank

\* --------------------------------------------------------------- C24

\* the offset lookat - com of tracking camera c from the subtree centre of
\* mass of the body it tracks
TrackOffset(c) == AddScl3(c.lookat, d.subtree_com[c.trackbodyid], -1)

\* C24: each mjv_updateCamera call with a tracking camera replaces lookat by
\* lookat + 0.2*(com - lookat) before it computes the head position: the
\* offset lookat - com shrinks by the factor 0.8 per call (exactly where a
\* fifth of it is representable) and never grows, lookat = com is a fixed
\* point, and the head is at the new lookat - distance*forward; free and
\* fixed cameras leave lookat unchanged.
C24_TrackingSmoothsLookat ==
    [][(pc = "updateCamera" /\ pc' = "updateSkin") =>
          IF cam.type = "mjCAMERA_TRACKING"
          THEN /\ \A r \in 1..3 :
                     /\ TrackOffset(cam)[r] % 5 = 0
                           => 5 * TrackOffset(cam')[r] = 4 * TrackOffset(cam)[r]
                     /\ Abs(TrackOffset(cam')[r]) <= Abs(TrackOffset(cam)[r])
                     /\ TrackOffset(cam)[r] * TrackOffset(cam')[r] >= 0
               /\ [r \in 1..3 |-> (scn'.camera[0].pos[r] + scn'.camera[1].pos[r]) \div 2]
                     = AddScl3(cam'.lookat, scn'.camera[0].forward, -cam.distance)
               /\ [cam' EXCEPT !.lookat = cam.lookat] = cam
          ELSE cam' = cam]_vars

\* the second call with a tracking camera has returned: the offset is 0.8
\* of what it was before the call, and not yet 0
C24_TrackedTwice ==
    /\ caller = "updateScene"
    /\ pc = "done"
    /\ hist.calls >= 2
    /\ cam.type = "mjCAMERA_TRACKING"
    /\ cam.lookat # d.subtree_com[cam.trackbodyid]
    /\ \A r \in 1..3 : 5 * TrackOffset(cam)[r] = 4 * TrackOffset(hist.cam0)[r]

\* --------------------------------------------------------------- C25

\* C25: after mjv_updateScene (and at every point of it) every primitive at
\* index n < ngeom has segid = n.
C25_SegidIsIndex ==
    caller = "updateScene" =>
        \A n \in 0..(scn.ngeom - 1) : scn.geoms[n].segid = n

\* mjv_updateScene has returned with several primitives, the last of them
\* in a slot whose stale segid was another
C25_SegidsStamped ==
    /\ caller = "updateScene"
    /\ pc = "done"
    /\ scn.ngeom >= 3
    /\ scn.geoms[scn.ngeom - 1].segid = scn.ngeom - 1
    /\ StaleGeom.segid # scn.ngeom - 1

\* --------------------------------------------------------------- C26

\* C26: every camera icon primitive (body box and lens cylinder) emitted by
\* mjv_addGeoms has owning-object type camera and the index of its camera,
\* and every light icon primitive has owning-object type light and the
\* index of its light, for every camera and light of the model and for
\* every frame mode.
C26_IconOwner ==
    CallUnderWay =>
        \A n \in DOMAIN CallPrims :
            LET g == CallPrims[n]
            IN  /\ g.site \in {"camera_body", "camera_lens"} =>
                      /\ g.objtype = "camera"
                      /\ g.objid \in 0..(m.ncam - 1)
                      /\ g.mat = Mat(d.cam_xmat[g.objid])
                      /\ g.site = "camera_body" => g.pos = d.cam_xpos[g.objid]
                /\ g.site = "light" =>
                      /\ g.objtype = "light"
                      /\ g.objid \in 0..(m.nlight - 1)
                      /\ g.pos = lightBody(g, g.objid).pos

\* the icons of the first camera and of the first light, and every icon
\* while the frames of cameras and lights are not drawn, have the owner
\* the claim names
C26_IconOwnerWithoutFrames ==
    CallUnderWay =>
        \A n \in DOMAIN CallPrims :
            LET g == CallPrims[n]
            IN  /\ (g.site \in {"camera_body", "camera_lens"}
                    /\ (g.objid = 0 \/ vopt.frame # "mjFRAME_CAMERA"))
                      => g.objtype = "camera"
                /\ (g.site = "light" /\ (g.objid = 0 \/ vopt.frame # "mjFRAME_LIGHT"))
                      => g.objtype = "light"

\* the icon of the second camera drawn after the frame of the first
C26_SecondCameraAfterFrame ==
    /\ CallUnderWay
    /\ vopt.frame = "mjFRAME_CAMERA"
    /\ \E n \in DOMAIN CallPrims :
          /\ CallPrims[n].site = "camera_body"
          /\ CallPrims[n].objid = 1
          /\ CallPrims[n].objtype = "unknown"

\* --------------------------------------------------------------- C27

RECURSIVE Assemble(_, _, _)
\* the primitive list the START sites ss yield from site j on in a buffer
\* that never fills, geoms being the list so far: a site that finishes
\* appends its primitive, an alpha-0 `continue` appends nothing
Assemble(ss, j, geoms) ==
    IF j > Len(ss) \/ ss[j].end = "fatal"
    THEN geoms
    ELSE LET s == ss[j]
             g == START(StaleGeom, s.objtype, s.i, s.category, Len(geoms), s.site)
         IN  Assemble(ss, j + 1,
                      IF s.end = "finish" THEN Append(geoms, Body(s, g, scn.camera))
                      ELSE geoms)

\* the list of the call with a capacity large enough never to fill, for
\* the scene cameras the call found
UnlimitedList == Assemble(AllSites, 1, << >>)

\* C27: truncation is a prefix.  For the same model, state, options,
\* perturbation, category mask and prior scene cameras, the primitive list
\* of mjv_updateScene with capacity N is the first min(N, M) primitives, in
\* the same order and with equal fields, of the list of M primitives
\* produced with a capacity that never fills.
C27_TruncationIsPrefix ==
    (caller = "updateScene" /\ pc = "makeLights") =>
        Prims(scn) = SubSeq(UnlimitedList, 1, Min(scn.maxgeom, Len(UnlimitedList)))

\* the second call on a scene has been cut short: the unlimited list is
\* longer than the buffer, whose slots held the primitives of the first call
C27_SecondCallTruncated ==
    /\ caller = "updateScene"
    /\ pc = "makeLights"
    /\ hist.calls = 2
    /\ hist.refused
    /\ scn.maxgeom >= 2
    /\ Len(UnlimitedList) > scn.maxgeom
    /\ scn.ngeom = scn.maxgeom

\* --------------------------------------------------------------- C28

\* the number of primitives the running or last call has emitted
CallCount == scn.ngeom - hist.ngeom0

\* C28: the buffer-full warning is raised during mjv_addGeoms only if at
\* least one primitive that the call would have emitted with unlimited
\* capacity is missing from the scene (in particular not for a skin, geom
\* or site of resolved alpha 0 visited while the buffer is exactly full),
\* and at most once per call.
C28_WarningMeansLoss ==
    (CallUnderWay /\ \A j \in DOMAIN AllSites : AllSites[j].end # "fatal") =>
        /\ warning > hist.warning0 => CallCount < Len(UnlimitedList)
        /\ warning <= hist.warning0 + 1

\* the warning is raised at most once per call, and a call that lacks a
\* primitive of the unlimited list has raised it
C28_WarningOncePerCall ==
    CallUnderWay =>
        /\ warning <= hist.warning0 + 1
        /\ (pc \in {"makeLights", "done"} /\ CallCount < Len(UnlimitedList))
              => warning = hist.warning0 + 1

\* the warning raised by a call that lacks no primitive: the buffer was
\* exactly full at an element of alpha 0
C28_SpuriousWarning ==
    /\ CallUnderWay
    /\ warning > hist.warning0
    /\ CallCount = Len(UnlimitedList)
    /\ k < Len(sites)
    /\ sites[k + 1].end = "skip"

\* --------------------------------------------------------------- C29

\* the alpha setMaterial resolves for an element of the given category,
\* material and colour, transparency scaling included
ElementAlpha(category, matid, rgba) ==
    setMaterial(START(StaleGeom, "unknown", 0, category, 0, "stale"), matid, rgba,
                vopt.flags).rgba[4]

GeomAlpha(i) ==
    ElementAlpha(bodycategory(m.geom_bodyid[i]), m.geom_matid[i], m.geom_rgba[i])

SiteAlpha(i) ==
    ElementAlpha(bodycategory(m.site_bodyid[i]), m.site_matid[i], m.site_rgba[i])

SkinAlpha(i) == ElementAlpha("dynamic", m.skin_matid[i], m.skin_rgba[i])

\* C29: no skin, model-geom or site primitive in the scene has alpha 0.  A
\* model geom or site whose resolved alpha is 0 emits nothing, neither the
\* primitive nor the axes of its frame, even when it belongs to the selected
\* body; a skin of resolved alpha 0 is emitted only if it is the selected
\* skin, and then with alpha 1.
C29_NoTransparentPrimitive ==
    CallUnderWay =>
        \A n \in DOMAIN CallPrims :
            LET g == CallPrims[n]
            IN  /\ g.site \in {"skin", "geom", "site"} => g.rgba[4] # 0
                /\ g.site \in {"geom", "geomframe"} => GeomAlpha(g.objid) # 0
                /\ g.site \in {"site", "siteframe"} => SiteAlpha(g.objid) # 0
                /\ (g.site = "skin" /\ SkinAlpha(g.objid) = 0)
                      => (pert.skinselect = g.objid /\ g.rgba[4] = 20)

\* the call has gone past a geom or a site of resolved alpha 0 on the
\* selected body, with the frames of its kind on, and has emitted other
\* primitives
C29_TransparentSelectedSkipped ==
    /\ pc = "addGeoms"
    /\ CallCount > 0
    /\ "decor" \in catmask
    /\ \E j \in 1..k :
          /\ sites[j].end = "skip"
          /\ \/ /\ sites[j].site = "geom"
                /\ GeomAlpha(sites[j].i) = 0
                /\ pert.select = m.geom_bodyid[sites[j].i]
                /\ vopt.frame = "mjFRAME_GEOM"
             \/ /\ sites[j].site = "site"
                /\ SiteAlpha(sites[j].i) = 0
                /\ pert.select = m.site_bodyid[sites[j].i]
                /\ vopt.frame = "mjFRAME_SITE"

\* --------------------------------------------------------------- C30

\* the contacts of the maximal suffix of the active contact list that are
\* flagged as distance pseudo-constraints
FlaggedSuffix ==
    {j \in 0..(d.ncon - 1) : \A j2 \in j..(d.ncon - 1) : d.contact[j2].exclude = 3}

\* the capsules of distance pseudo-constraints the call has emitted, in
\* order
DistanceCapsules == SelectSeq(CallPrims, LAMBDA g : g.site = "eq_distance")

\* C30: with the constraint flag on, the decorative category enabled and at
\* least one equality constraint in the model, mjv_addGeoms emits one
\* capsule per contact of the maximal suffix of the active contact list
\* whose entries are flagged as distance pseudo-constraints (exclude = 3),
\* from the last contact backward, and stops at the first contact not so
\* flagged; the scan ends after at most ncon steps, and the label of each
\* capsule, when the label mode is constraint, names the equality
\* constraint -efc_address-2.
C30_DistanceSuffix ==
    (pc \in {"makeLights", "done"} /\ ~hist.refused /\ Flag("mjVIS_CONSTRAINT")
     /\ "decor" \in catmask /\ m.neq > 0) =>
        /\ Len(DistanceCapsules) = Cardinality(FlaggedSuffix)
        /\ Len(DistanceCapsules) <= d.ncon
        /\ \A q \in DOMAIN DistanceCapsules :
              LET g == DistanceCapsules[q]
                  con == d.contact[d.ncon - q]
              IN  /\ d.ncon - q \in FlaggedSuffix
                  /\ g.type = "capsule"
                  /\ g.pos = con.pos
                  /\ g.objtype = "equality"
                  /\ g.objid = -con.efc_address - 2
                  /\ vopt.label = "mjLABEL_CONSTRAINT"
                        => g.label = makeLabel("equality", -con.efc_address - 2)

\* one capsule drawn for the flagged contact at the end of a list whose
\* first contact is flagged as well, behind one that is not
C30_SuffixBehindGap ==
    /\ pc = "done"
    /\ ~hist.refused
    /\ d.ncon = 3
    /\ d.contact[0].exclude = 3
    /\ d.contact[1].exclude # 3
    /\ d.contact[2].exclude = 3
    /\ Len(DistanceCapsules) = 1
    /\ DistanceCapsules[1].label = makeLabel("equality", 1)

====
